---------------------------- MODULE Spec2Model ----------------------------
(***************************************************************************)
(* A model of snarkVM's program-execution layer:                           *)
(*   - CallStack (vm/compiler/src/process/stack/mod.rs), the five-variant  *)
(*     carrier of pending requests, with push / pop / peek / replicate;    *)
(*   - Stack's proving-key and verifying-key caches, each an               *)
(*     Arc<RwLock<IndexMap<..>>>, used by concurrent threads.              *)
(*                                                                         *)
(* Requests, assignments and transitions are opaque values; each value     *)
(* that enters the model gets a fresh identity (nextId), so that "the most *)
(* recently pushed request" is a well-defined notion.                      *)
(***************************************************************************)
EXTENDS Integers, Sequences, FiniteSets, TLC

(***************************************************************************)
(* Bounds of the model.                                                    *)
(***************************************************************************)
\* The number of fresh values (requests, payload items) a behaviour creates.
MaxReq == 3
\* The number of CallStack objects alive in a behaviour (original + replicas).
MaxStacks == 2

\* The depth of recursion at which the thread's stack is taken to overflow.
MaxDepth == 6

\* The most instances a circuit is given.
MaxInstances == 2

VARIABLES
    cs,         \* CallStack id -> CallStack value, or NoCS when not yet created
    heap,       \* the Arc<RwLock<..>> cells: a sequence of cell contents
    nextId,     \* the identity of the next fresh request / payload item
    ret,        \* the operation performed last on a CallStack and its result
    pushed,     \* history: per CallStack, the requests pushed, in push order
    popped,     \* history: per CallStack, the requests returned by pop, in order
    proving_keys,    \* Stack.proving_keys: the guarded map, function name -> key
    verifying_keys,  \* Stack.verifying_keys: the guarded map, function name -> key
    rwlock,     \* per key cache, the state of its RwLock: readers and writer inside
    thr,        \* per thread, the Stack operation it is in, its position and result
    inserted,   \* history: per thread, the slot and key of its completed insert
    stack,      \* the Stack under study: program, external_stacks, program_types
    lookup,     \* the lookup made last on the Stack: operation, argument, result
    pair,     \* two Stacks that are compared, each with pointers to its key caches
    keycells,   \* the shared cells (Arc<RwLock<IndexMap>>) those pointers name
    prover      \* init_prover: its circuits, the workers' outputs, what it collected

csvars == <<cs, heap, nextId, ret, pushed, popped>>

keyvars == <<proving_keys, verifying_keys, rwlock, thr, inserted>>

linkvars == <<stack, lookup>>

eqvars == <<pair, keycells>>

vars == <<cs, heap, nextId, ret, pushed, popped,
          proving_keys, verifying_keys, rwlock, thr, inserted,
          stack, lookup, pair, keycells, prover>>

(***************************************************************************)
(* CallStack: the data.                                                    *)
(***************************************************************************)
CSIds == 1..MaxStacks

NoCS == [variant |-> "none"]

\* The variants that carry an explicit Vec<Request>.
ExplicitVariants == {"Authorize", "Synthesize", "CheckDeployment"}

\* The variants that delegate to their Authorization.
DelegatedVariants == {"Evaluate", "Execute"}

Variants == ExplicitVariants \cup DelegatedVariants

\* enum CallStack: one record shape for the five variants; a field a variant
\* does not have is empty (requests), "none" (private_key) or the null cell 0.
\*   authorization : the cell of the Authorization's Arc<RwLock<VecDeque<Request>>>
\*   payload       : the cell of Assignments (CheckDeployment) or of
\*                   Arc<RwLock<Execution>> (Execute)
CallStack(variant, requests, authorization, payload) ==
    [variant       |-> variant,
     requests      |-> requests,
     private_key   |-> IF variant \in ExplicitVariants THEN "sk" ELSE "none",
     authorization |-> authorization,
     payload       |-> payload]

HasAuthorization(variant) == variant \in {"Authorize", "Synthesize", "Evaluate", "Execute"}

HasPayload(variant) == variant \in {"CheckDeployment", "Execute"}

Live(c) == cs[c] # NoCS

IsExplicit(c) == cs[c].variant \in ExplicitVariants

IsDelegated(c) == cs[c].variant \in DelegatedVariants

(***************************************************************************)
(* Results.                                                                *)
(***************************************************************************)
\* kind is "ok" (Ok(res)), "err" (Err(anyhow!(msg))) or "panic"; from is the
\* CallStack a replica was made of, and 0 for every other operation.
Ok(op, c, r) == [op |-> op, cs |-> c, kind |-> "ok", res |-> r, msg |-> "", from |-> 0]

Err(op, c, m) == [op |-> op, cs |-> c, kind |-> "err", res |-> 0, msg |-> m, from |-> 0]

Replicated(c, d) == [op |-> "replicate", cs |-> d, kind |-> "ok", res |-> 0, msg |-> "", from |-> c]

NoMoreRequests == "No more requests on the stack"

(***************************************************************************)
(* Vec<Request>: push, pop, last.                                          *)
(***************************************************************************)
VecPush(v, r) == Append(v, r)

\* Variant of VecPop that takes the first element (Vec::remove(0)).
VecPop_front(v) ==
    IF v = <<>>
    THEN [some |-> FALSE, val |-> 0, rest |-> v]
    ELSE [some |-> TRUE, val |-> v[1], rest |-> SubSeq(v, 2, Len(v))]

\* Vec::pop: removes the last element and returns it, or None when empty.
VecPop(v) ==
    IF v = <<>>
    THEN [some |-> FALSE, val |-> 0, rest |-> v]
    ELSE [some |-> TRUE, val |-> v[Len(v)], rest |-> SubSeq(v, 1, Len(v) - 1)]

\* Variant of VecLast that yields a default request when the list is empty
\* (last().cloned().unwrap_or_default()).
VecLast_default(v) ==
    IF v = <<>>
    THEN [some |-> TRUE, val |-> 0]
    ELSE [some |-> TRUE, val |-> v[Len(v)]]

\* slice::last().cloned(): the last element, or None when empty.
VecLast(v) ==
    IF v = <<>>
    THEN [some |-> FALSE, val |-> 0]
    ELSE [some |-> TRUE, val |-> v[Len(v)]]

(***************************************************************************)
(* Authorization: an ordered queue of requests with a cursor at its front. *)
(* Its code is not part of the sources at hand; these follow the           *)
(* specification's description of the collaborator.                        *)
(***************************************************************************)
AuthNoMoreRequests == "No more requests in the authorization"

\* Authorization::push: enqueue at the back.
AuthPush(q, r) == Append(q, r)

\* Authorization::next: dequeue the request at the cursor (the front).
AuthNext(q) ==
    IF q = <<>>
    THEN [some |-> FALSE, val |-> 0, rest |-> q]
    ELSE [some |-> TRUE, val |-> Head(q), rest |-> Tail(q)]

\* Authorization::peek_next: the request at the cursor, without removal.
AuthPeekNext(q) ==
    IF q = <<>>
    THEN [some |-> FALSE, val |-> 0]
    ELSE [some |-> TRUE, val |-> Head(q)]

\* Authorization::replicate: an independent copy of the queue's contents.
AuthReplicate(q) == q

(***************************************************************************)
(* CallStack: the operations.                                              *)
(***************************************************************************)
\* Initial CallStack of a variant, with its cells allocated in the heap.
InitCallStack(variant) ==
    CallStack(variant, <<>>,
              IF HasAuthorization(variant) THEN 1 ELSE 0,
              IF variant = "CheckDeployment" THEN 1
              ELSE IF variant = "Execute" THEN 2 ELSE 0)

InitHeap(variant) == IF variant = "Execute" THEN << <<>>, <<>> >> ELSE << <<>> >>

\* The cells replicate() hands to the replica: a fresh cell per guarded value.
ReplicaAuthorization(c) ==
    IF HasAuthorization(cs[c].variant) THEN Len(heap) + 1 ELSE 0

\* Variant of ReplicaPayload that clones the Arc instead of its contents.
ReplicaPayload_shared(c) == cs[c].payload

ReplicaPayload(c) ==
    IF ~HasPayload(cs[c].variant) THEN 0
    ELSE IF HasAuthorization(cs[c].variant) THEN Len(heap) + 2 ELSE Len(heap) + 1

\* The heap after replicate(): the guarded contents are read and copied.
ReplicaHeap(c) ==
    LET h1 == IF HasAuthorization(cs[c].variant)
              THEN Append(heap, AuthReplicate(heap[cs[c].authorization]))
              ELSE heap
    IN  IF HasPayload(cs[c].variant) THEN Append(h1, heap[cs[c].payload]) ELSE h1

\* CallStack::replicate(&self) -> Self; the replica is stored as CallStack d,
\* the first id not in use.
replicate(c, d) ==
    /\ Live(c)
    /\ ~Live(d)
    /\ \A e \in CSIds : e < d => Live(e)
    /\ cs' = [cs EXCEPT ![d] = CallStack(cs[c].variant, cs[c].requests,
                                         ReplicaAuthorization(c), ReplicaPayload(c))]
    /\ heap' = ReplicaHeap(c)
    /\ ret' = Replicated(c, d)
    /\ pushed' = [pushed EXCEPT ![d] = pushed[c]]
    /\ popped' = [popped EXCEPT ![d] = popped[c]]
    /\ UNCHANGED nextId

\* CallStack::push(&mut self, request) -> Result<()>
push(c) ==
    /\ Live(c)
    /\ nextId <= MaxReq
    /\ IF IsExplicit(c)
       THEN /\ cs' = [cs EXCEPT ![c].requests = VecPush(@, nextId)]
            /\ UNCHANGED heap
       ELSE /\ heap' = [heap EXCEPT ![cs[c].authorization] = AuthPush(@, nextId)]
            /\ UNCHANGED cs
    /\ ret' = Ok("push", c, 0)
    /\ pushed' = [pushed EXCEPT ![c] = Append(@, nextId)]
    /\ nextId' = nextId + 1
    /\ UNCHANGED popped

\* Variant of pop_result whose delegated arm calls peek_next() instead of next().
pop_result_peek_next(c) ==
    IF IsExplicit(c)
    THEN VecPop(cs[c].requests)
    ELSE [some |-> AuthPeekNext(heap[cs[c].authorization]).some,
          val  |-> AuthPeekNext(heap[cs[c].authorization]).val,
          rest |-> heap[cs[c].authorization]]

\* The match of CallStack::pop: what is removed and returned, per variant.
pop_result(c) ==
    IF IsExplicit(c)
    THEN VecPop(cs[c].requests)
    ELSE AuthNext(heap[cs[c].authorization])

\* The error of an empty pop / peek, per variant.
underflow(c) == IF IsExplicit(c) THEN NoMoreRequests ELSE AuthNoMoreRequests

\* CallStack::pop(&mut self) -> Result<Request>
pop(c) ==
    /\ Live(c)
    /\ LET p == pop_result(c)
       IN  /\ IF IsExplicit(c)
              THEN /\ cs' = [cs EXCEPT ![c].requests = p.rest]
                   /\ UNCHANGED heap
              ELSE /\ heap' = [heap EXCEPT ![cs[c].authorization] = p.rest]
                   /\ UNCHANGED cs
           /\ ret' = IF p.some THEN Ok("pop", c, p.val) ELSE Err("pop", c, underflow(c))
           /\ popped' = IF p.some THEN [popped EXCEPT ![c] = Append(@, p.val)] ELSE popped
    /\ UNCHANGED <<nextId, pushed>>

\* Variant of peek_result whose explicit-list arm calls first() instead of last().
peek_result_first(c) ==
    IF IsExplicit(c)
    THEN IF cs[c].requests = <<>>
         THEN [some |-> FALSE, val |-> 0]
         ELSE [some |-> TRUE, val |-> cs[c].requests[1]]
    ELSE AuthPeekNext(heap[cs[c].authorization])

\* The match of CallStack::peek: what is returned, per variant.
peek_result(c) ==
    IF IsExplicit(c)
    THEN VecLast(cs[c].requests)
    ELSE AuthPeekNext(heap[cs[c].authorization])

\* CallStack::peek(&mut self) -> Result<Request>
peek(c) ==
    /\ Live(c)
    /\ LET l == peek_result(c)
       IN  ret' = IF l.some THEN Ok("peek", c, l.val) ELSE Err("peek", c, underflow(c))
    /\ UNCHANGED <<cs, heap, nextId, pushed, popped>>

\* A write through the CallStack's lock-guarded payload: assignments.write()
\* .push(..) for CheckDeployment, execution.write().push(..) for Execute, and
\* authorization.push(..) on the authorization under construction for
\* Authorize / Synthesize.  The callers that do so are outside the sources at hand.
payload_write(c) ==
    /\ Live(c)
    /\ cs[c].variant # "Evaluate"
    /\ nextId <= MaxReq
    /\ LET cell == IF HasPayload(cs[c].variant) THEN cs[c].payload
                   ELSE cs[c].authorization
       IN  heap' = [heap EXCEPT ![cell] = Append(@, nextId)]
    /\ ret' = Ok("payload_write", c, 0)
    /\ nextId' = nextId + 1
    /\ UNCHANGED <<cs, pushed, popped>>

InitCallStackOf(variant) ==
        /\ cs = [c \in CSIds |-> IF c = 1 THEN InitCallStack(variant) ELSE NoCS]
        /\ heap = InitHeap(variant)
        /\ nextId = 1
        /\ ret = Ok("new", 1, 0)
        /\ pushed = [c \in CSIds |-> <<>>]
        /\ popped = [c \in CSIds |-> <<>>]

InitCallStacks == \E variant \in Variants : InitCallStackOf(variant)

NextCallStack ==
    \/ \E c \in CSIds : push(c) /\ UNCHANGED <<keyvars, linkvars, eqvars, prover>>
    \/ \E c \in CSIds : pop(c) /\ UNCHANGED <<keyvars, linkvars, eqvars, prover>>
    \/ \E c \in CSIds : peek(c) /\ UNCHANGED <<keyvars, linkvars, eqvars, prover>>
    \/ \E c \in CSIds, d \in CSIds : replicate(c, d) /\ UNCHANGED <<keyvars, linkvars, eqvars, prover>>
    \/ \E c \in CSIds : payload_write(c) /\ UNCHANGED <<keyvars, linkvars, eqvars, prover>>

(***************************************************************************)
(* Stack: the program's functions and the two key caches.                  *)
(***************************************************************************)
\* The threads that share the Stack.
Threads == {"t1", "t2"}

\* The names of the functions declared in Stack.program.
Functions == {"f1", "f2"}

\* The identifiers a caller may pass: the declared names and an undeclared one.
Identifiers == Functions \cup {"g"}

\* The key values (ProvingKey / VerifyingKey are opaque, stored verbatim).
Keys == {"k1", "k2"}

NoKey == "absent"

NoThread == "nobody"

Caches == {"proving_keys", "verifying_keys"}

\* Variant of contains_function with the ensure!() of the inserts left out.
contains_function_any(f) == TRUE

\* Program::contains_function
contains_function(f) == f \in Functions

\* IndexMap: contains_key, get, insert, remove on a map name -> key.
MapContainsKey(m, f) == m[f] # NoKey

MapGet(m, f) == m[f]

\* Variant of MapInsert that keeps an entry already there (entry().or_insert()).
MapInsert_if_absent(m, f, key) == IF m[f] = NoKey THEN [m EXCEPT ![f] = key] ELSE m

MapInsert(m, f, key) == [m EXCEPT ![f] = key]

MapRemove(m, f) == [m EXCEPT ![f] = NoKey]

EmptyMap == [f \in Identifiers |-> NoKey]

\* The guarded map of a cache.
Cache(k) == IF k = "proving_keys" THEN proving_keys ELSE verifying_keys

\* The guarded map of cache k becomes m; the other cache's map stays.
SetCache(k, m) ==
    IF k = "proving_keys"
    THEN proving_keys' = m /\ UNCHANGED verifying_keys
    ELSE verifying_keys' = m /\ UNCHANGED proving_keys

\* The cache an operation works on.
CacheOfOp(op) ==
    IF op \in {"contains_proving_key", "get_proving_key",
               "insert_proving_key", "remove_proving_key"}
    THEN "proving_keys" ELSE "verifying_keys"

WriteOps == {"insert_proving_key", "insert_verifying_key",
             "remove_proving_key", "remove_verifying_key"}

\* The maps a cache can hold, and the results a read of it can give.
Maps == [Identifiers -> Keys \cup {NoKey}]

\* A thread's record: pc is "idle" (between calls; ret is the last result),
\* "called" (in a call, before its lock is taken) or "locked" (holding the lock).
Idle(result) == [pc |-> "idle", op |-> "none", name |-> "none", key |-> "none", ret |-> result]

Called(op, f, key) == [pc |-> "called", op |-> op, name |-> f, key |-> key, ret |-> "none"]

At(t, pc, op, f, key) ==
    /\ thr[t].pc = pc
    /\ thr[t].op = op
    /\ thr[t].name = f
    /\ thr[t].key = key

\* The results: Ok(()) / Ok(key) / bool, and the two errors.
OkUnit == "ok"

ErrNoFunction == "err: function does not exist in program"

ErrKeyNotFound == "err: key not found"

BoolResult(b) == IF b THEN "true" ELSE "false"

\* Thread t is inside cache k's critical section together with a thread that
\* makes the access a data race: t writes, or the other thread does.  The lock
\* is there to exclude it; when it happens the outcome of t's access is arbitrary.
Races(t, k) ==
    \E u \in Threads \ {t} :
        /\ thr[u].pc = "locked"
        /\ CacheOfOp(thr[u].op) = k
        /\ thr[t].op \in WriteOps \/ thr[u].op \in WriteOps

\* The guarded map of cache k after t's write that should leave it as m.
Store(t, k, m) ==
    IF Races(t, k) THEN \E any \in Maps : SetCache(k, any) ELSE SetCache(k, m)

\* What t's read of cache k returns when it should return r, one of rs.
Load(t, k, r, rs) == IF Races(t, k) THEN rs ELSE {r}

\* The call is made: the thread enters the operation.
Call(t, op, f, key) ==
    /\ thr[t].pc = "idle"
    /\ thr' = [thr EXCEPT ![t] = Called(op, f, key)]
    /\ UNCHANGED <<proving_keys, verifying_keys, rwlock>>

\* Variant of read that reaches the map without waiting for the writer
\* (the guarded value accessed through data_ptr(), no lock taken).
read_unguarded(t, k) ==
    /\ rwlock' = [rwlock EXCEPT ![k].readers = @ \cup {t}]
    /\ thr' = [thr EXCEPT ![t].pc = "locked"]

\* RwLock::read(): blocks while a writer is inside; then the thread is a reader.
read(t, k) ==
    /\ rwlock[k].writer = NoThread
    /\ rwlock' = [rwlock EXCEPT ![k].readers = @ \cup {t}]
    /\ thr' = [thr EXCEPT ![t].pc = "locked"]

\* Variant of write that takes the lock shared, as read() does: writers wait
\* for a writer that registered, never for each other.
write_shared(t, k) ==
    /\ rwlock[k].writer = NoThread
    /\ rwlock' = [rwlock EXCEPT ![k].readers = @ \cup {t}]
    /\ thr' = [thr EXCEPT ![t].pc = "locked"]

\* RwLock::write(): blocks while a writer or a reader is inside.
write(t, k) ==
    /\ rwlock[k].writer = NoThread
    /\ rwlock[k].readers = {}
    /\ rwlock' = [rwlock EXCEPT ![k].writer = t]
    /\ thr' = [thr EXCEPT ![t].pc = "locked"]

\* Variant of Unlock that returns with the guard leaked (mem::forget): the
\* thread stays registered in the lock.
Unlock_guard_leaked(t, k, result) ==
    /\ UNCHANGED rwlock
    /\ thr' = [thr EXCEPT ![t] = Idle(result)]

\* The guard is dropped at the end of the statement and the call returns.
Unlock(t, k, result) ==
    /\ rwlock' = [rwlock EXCEPT ![k].readers = @ \ {t},
                                ![k].writer = IF @ = t THEN NoThread ELSE @]
    /\ thr' = [thr EXCEPT ![t] = Idle(result)]

\* self.<k>.read().contains_key(function_name)
contains_key(t, op, k, f) ==
    \/ Call(t, op, f, "none")
    \/ /\ At(t, "called", op, f, "none")
       /\ read(t, k)
       /\ UNCHANGED <<proving_keys, verifying_keys>>
    \/ /\ At(t, "locked", op, f, "none")
       /\ \E r \in Load(t, k, BoolResult(MapContainsKey(Cache(k), f)), {"true", "false"}) :
              Unlock(t, k, r)
       /\ UNCHANGED <<proving_keys, verifying_keys>>

\* match self.<k>.read().get(function_name) { Some(key) => Ok(key.clone()), None => bail!(..) }
get_key(t, op, k, f) ==
    \/ Call(t, op, f, "none")
    \/ /\ At(t, "called", op, f, "none")
       /\ read(t, k)
       /\ UNCHANGED <<proving_keys, verifying_keys>>
    \/ /\ At(t, "locked", op, f, "none")
       /\ \E r \in Load(t, k, IF MapContainsKey(Cache(k), f) THEN MapGet(Cache(k), f)
                                                               ELSE ErrKeyNotFound,
                         Keys \cup {ErrKeyNotFound}) :
              Unlock(t, k, r)
       /\ UNCHANGED <<proving_keys, verifying_keys>>

\* Variant of insert_key with the ensure!() placed after the insertion.
insert_key_late_check(t, op, k, f, key) ==
    \/ Call(t, op, f, key)
    \/ /\ At(t, "called", op, f, key)
       /\ write(t, k)
       /\ UNCHANGED <<proving_keys, verifying_keys>>
    \/ /\ At(t, "locked", op, f, key)
       /\ Store(t, k, MapInsert(Cache(k), f, key))
       /\ Unlock(t, k, IF contains_function(f) THEN OkUnit ELSE ErrNoFunction)

\* ensure!(self.program.contains_function(function_name), ..);
\* self.<k>.write().insert(*function_name, key); Ok(())
insert_key(t, op, k, f, key) ==
    \/ Call(t, op, f, key)
    \/ /\ At(t, "called", op, f, key)
       /\ ~contains_function(f)
       /\ thr' = [thr EXCEPT ![t] = Idle(ErrNoFunction)]
       /\ UNCHANGED <<proving_keys, verifying_keys, rwlock>>
    \/ /\ At(t, "called", op, f, key)
       /\ contains_function(f)
       /\ write(t, k)
       /\ UNCHANGED <<proving_keys, verifying_keys>>
    \/ /\ At(t, "locked", op, f, key)
       /\ Store(t, k, MapInsert(Cache(k), f, key))
       /\ Unlock(t, k, OkUnit)

\* Variant of remove_key that reports a missing entry as an error.
remove_key_strict(t, op, k, f) ==
    \/ Call(t, op, f, "none")
    \/ /\ At(t, "called", op, f, "none")
       /\ write(t, k)
       /\ UNCHANGED <<proving_keys, verifying_keys>>
    \/ /\ At(t, "locked", op, f, "none")
       /\ Store(t, k, MapRemove(Cache(k), f))
       /\ Unlock(t, k, IF MapContainsKey(Cache(k), f) THEN OkUnit ELSE ErrKeyNotFound)

\* self.<k>.write().remove(function_name);
remove_key(t, op, k, f) ==
    \/ Call(t, op, f, "none")
    \/ /\ At(t, "called", op, f, "none")
       /\ write(t, k)
       /\ UNCHANGED <<proving_keys, verifying_keys>>
    \/ /\ At(t, "locked", op, f, "none")
       /\ Store(t, k, MapRemove(Cache(k), f))
       /\ Unlock(t, k, OkUnit)

\* Stack::contains_proving_key(&self, function_name) -> bool
contains_proving_key(t, f) == contains_key(t, "contains_proving_key", "proving_keys", f)

\* Stack::contains_verifying_key(&self, function_name) -> bool
contains_verifying_key(t, f) == contains_key(t, "contains_verifying_key", "verifying_keys", f)

\* Stack::get_proving_key(&self, function_name) -> Result<ProvingKey>
get_proving_key(t, f) == get_key(t, "get_proving_key", "proving_keys", f)

\* Stack::get_verifying_key(&self, function_name) -> Result<VerifyingKey>
get_verifying_key(t, f) == get_key(t, "get_verifying_key", "verifying_keys", f)

\* Variant of insert_proving_key that writes into self.verifying_keys.
insert_proving_key_wrong_cache(t, f, key) ==
    insert_key(t, "insert_proving_key", "verifying_keys", f, key)

\* Stack::insert_proving_key(&self, function_name, proving_key) -> Result<()>
insert_proving_key(t, f, key) == insert_key(t, "insert_proving_key", "proving_keys", f, key)

\* Stack::insert_verifying_key(&self, function_name, verifying_key) -> Result<()>
insert_verifying_key(t, f, key) ==
    insert_key(t, "insert_verifying_key", "verifying_keys", f, key)

\* Stack::remove_proving_key(&self, function_name)
remove_proving_key(t, f) == remove_key(t, "remove_proving_key", "proving_keys", f)

\* Stack::remove_verifying_key(&self, function_name)
remove_verifying_key(t, f) == remove_key(t, "remove_verifying_key", "verifying_keys", f)

\* No insert recorded for a thread.
NoInsert == [cache |-> "none", name |-> "none", key |-> "none"]

\* The Stack as Stack::initialize leaves it: both caches empty, nobody inside.
InitStack ==
    /\ proving_keys = EmptyMap
    /\ verifying_keys = EmptyMap
    /\ rwlock = [k \in Caches |-> [readers |-> {}, writer |-> NoThread]]
    /\ thr = [t \in Threads |-> Idle("none")]
    /\ inserted = [t \in Threads |-> NoInsert]

\* History of the concurrent-writers scenario: thread t makes one insert call,
\* and the slot and key of its insert are recorded when the call returns Ok.
OneInsert(t, k, f, key) ==
    /\ thr[t].pc = "idle" => inserted[t] = NoInsert
    /\ inserted' = IF thr'[t] = Idle(OkUnit)
                   THEN [inserted EXCEPT ![t] = [cache |-> k, name |-> f, key |-> key]]
                   ELSE inserted

\* Each thread inserts one key, proving or verifying, concurrently with the others.
NextInserts ==
    \/ \E t \in Threads, f \in Identifiers, key \in Keys :
           /\ insert_proving_key(t, f, key)
           /\ OneInsert(t, "proving_keys", f, key)
           /\ UNCHANGED <<csvars, linkvars, eqvars, prover>>
    \/ \E t \in Threads, f \in Identifiers, key \in Keys :
           /\ insert_verifying_key(t, f, key)
           /\ OneInsert(t, "verifying_keys", f, key)
           /\ UNCHANGED <<csvars, linkvars, eqvars, prover>>

NextKeys ==
    \/ \E t \in Threads, f \in Identifiers :
           contains_proving_key(t, f) /\ UNCHANGED <<csvars, inserted, linkvars, eqvars, prover>>
    \/ \E t \in Threads, f \in Identifiers :
           contains_verifying_key(t, f) /\ UNCHANGED <<csvars, inserted, linkvars, eqvars, prover>>
    \/ \E t \in Threads, f \in Identifiers :
           get_proving_key(t, f) /\ UNCHANGED <<csvars, inserted, linkvars, eqvars, prover>>
    \/ \E t \in Threads, f \in Identifiers :
           get_verifying_key(t, f) /\ UNCHANGED <<csvars, inserted, linkvars, eqvars, prover>>
    \/ \E t \in Threads, f \in Identifiers, key \in Keys :
           insert_proving_key(t, f, key) /\ UNCHANGED <<csvars, inserted, linkvars, eqvars, prover>>
    \/ \E t \in Threads, f \in Identifiers, key \in Keys :
           insert_verifying_key(t, f, key) /\ UNCHANGED <<csvars, inserted, linkvars, eqvars, prover>>
    \/ \E t \in Threads, f \in Identifiers :
           remove_proving_key(t, f) /\ UNCHANGED <<csvars, inserted, linkvars, eqvars, prover>>
    \/ \E t \in Threads, f \in Identifiers :
           remove_verifying_key(t, f) /\ UNCHANGED <<csvars, inserted, linkvars, eqvars, prover>>

\* The names the threads of the lock scenario pass: a function and a non-function.
LockNames == {"f1", "g"}

\* Thread t holds cache k's lock: it is one of its readers or its writer.
Holds(t, k) == t \in rwlock[k].readers \/ rwlock[k].writer = t

\* The eight key-cache operations called concurrently by the threads on one Stack.
NextLocks ==
    \/ \E t \in Threads, f \in LockNames :
           contains_proving_key(t, f) /\ UNCHANGED <<csvars, inserted, linkvars, eqvars, prover>>
    \/ \E t \in Threads, f \in LockNames :
           contains_verifying_key(t, f) /\ UNCHANGED <<csvars, inserted, linkvars, eqvars, prover>>
    \/ \E t \in Threads, f \in LockNames :
           get_proving_key(t, f) /\ UNCHANGED <<csvars, inserted, linkvars, eqvars, prover>>
    \/ \E t \in Threads, f \in LockNames :
           get_verifying_key(t, f) /\ UNCHANGED <<csvars, inserted, linkvars, eqvars, prover>>
    \/ \E t \in Threads, f \in LockNames :
           insert_proving_key(t, f, "k1") /\ UNCHANGED <<csvars, inserted, linkvars, eqvars, prover>>
    \/ \E t \in Threads, f \in LockNames :
           insert_verifying_key(t, f, "k1") /\ UNCHANGED <<csvars, inserted, linkvars, eqvars, prover>>
    \/ \E t \in Threads, f \in LockNames :
           remove_proving_key(t, f) /\ UNCHANGED <<csvars, inserted, linkvars, eqvars, prover>>
    \/ \E t \in Threads, f \in LockNames :
           remove_verifying_key(t, f) /\ UNCHANGED <<csvars, inserted, linkvars, eqvars, prover>>

\* A step of thread t inside a call it has started: it takes the lock, or it
\* returns.  Starting a call is the caller's choice and is not such a step.
Proceed(t) == NextLocks /\ thr[t].pc # "idle" /\ thr'[t] # thr[t]

(***************************************************************************)
(* Stack: the program, its imports and the lookups.                        *)
(***************************************************************************)
\* Program: its ID, its functions (name -> instructions), closures and records.
Program(id, functions, closures, records) ==
    [id |-> id, functions |-> functions, closures |-> closures, records |-> records]

\* struct Stack, without the SRS and the key caches: the three fields that
\* Stack::initialize fills from the program and the process.
Stack(program, external_stacks, program_types) ==
    [program |-> program, external_stacks |-> external_stacks,
     program_types |-> program_types]

\* The program IDs: the Stack's own, an import, and one that is never loaded.
MainID == "main.aleo"

ExtID == "ext.aleo"

MissingID == "missing.aleo"

ProgramIDs == {MainID, ExtID, MissingID}

\* The record names a locator may carry.
RecordNames == {"token", "coin"}

\* Locator: a resource qualified by a program ID.
Locator(program_id, resource) == [program_id |-> program_id, resource |-> resource]

Locators == {Locator(id, r) : id \in ProgramIDs, r \in RecordNames}

\* Result<T>: Ok(val) or Err(err).
ROk(v) == [ok |-> TRUE, val |-> v, err |-> ""]

RErr(m) == [ok |-> FALSE, val |-> [none |-> TRUE], err |-> m]

ErrNoExternal == "External program does not exist."

ErrMainAsExternal == "Attempted to get the main program as an external program"

ErrNoRecord == "Record is not defined."

\* Program::contains_record / Program::get_record
ProgramContainsRecord(program, name) == name \in program.records

ProgramGetRecord(program, name) ==
    IF name \in program.records THEN ROk([record |-> name, of |-> program.id])
    ELSE RErr(ErrNoRecord)

\* Stack::get_external_stack(&self, program_id) -> Result<&Stack>
get_external_stack(s, program_id) ==
    IF program_id \in DOMAIN s.external_stacks
    THEN ROk(s.external_stacks[program_id])
    ELSE RErr(ErrNoExternal)

\* Variant of get_external_program without the test for the Stack's own ID.
get_external_program_unchecked(s, program_id) ==
    IF get_external_stack(s, program_id).ok
    THEN ROk(get_external_stack(s, program_id).val.program)
    ELSE get_external_stack(s, program_id)

\* Stack::get_external_program(&self, program_id) -> Result<&Program>
get_external_program(s, program_id) ==
    IF s.program.id = program_id
    THEN RErr(ErrMainAsExternal)
    ELSE IF get_external_stack(s, program_id).ok
         THEN ROk(get_external_stack(s, program_id).val.program)
         ELSE get_external_stack(s, program_id)

\* Variant of contains_external_record that answers for the Stack's own
\* program when the locator names it.
contains_external_record_own(s, locator) ==
    IF s.program.id = locator.program_id
    THEN ProgramContainsRecord(s.program, locator.resource)
    ELSE IF get_external_program(s, locator.program_id).ok
         THEN ProgramContainsRecord(get_external_program(s, locator.program_id).val,
                                    locator.resource)
         ELSE FALSE

\* Stack::contains_external_record(&self, locator) -> bool
contains_external_record(s, locator) ==
    IF get_external_program(s, locator.program_id).ok
    THEN ProgramContainsRecord(get_external_program(s, locator.program_id).val,
                               locator.resource)
    ELSE FALSE

\* Stack::get_external_record(&self, locator) -> Result<RecordType>
get_external_record(s, locator) ==
    IF get_external_program(s, locator.program_id).ok
    THEN ProgramGetRecord(get_external_program(s, locator.program_id).val,
                          locator.resource)
    ELSE get_external_program(s, locator.program_id)

\* The register types Stack::initialize computes: one entry per function and closure.
TypesOf(program) == [n \in DOMAIN program.functions \cup program.closures |-> "types"]

\* A Stack without imports.
LeafStack(program) == Stack(program, <<>>, TypesOf(program))

ErrFunctionMissing == "Function does not exist in program."

Unbounded == "stack overflow: the recursion did not return"

\* Instructions: a Call by local name, a Call by locator, anything else.
Other == [opcode |-> "add", operator |-> "none", program_id |-> "", resource |-> ""]

CallResource(resource) ==
    [opcode |-> "call", operator |-> "Resource", program_id |-> "", resource |-> resource]

CallLocator(program_id, resource) ==
    [opcode |-> "call", operator |-> "Locator", program_id |-> program_id,
     resource |-> resource]

\* Program::contains_function
ProgramContainsFunction(program, name) == name \in DOMAIN program.functions

\* Call::is_function_call(&self, stack) -> Result<bool>: whether the operator
\* names a function (and not a closure) of the external or of the local program.
is_function_call(call, s) ==
    IF call.operator = "Locator"
    THEN IF get_external_program(s, call.program_id).ok
         THEN ROk(ProgramContainsFunction(get_external_program(s, call.program_id).val,
                                          call.resource))
         ELSE get_external_program(s, call.program_id)
    ELSE ROk(ProgramContainsFunction(s.program, call.resource))

\* Stack::get_function(&self, function_name) -> Result<Function>
get_function(s, function_name) ==
    IF ProgramContainsFunction(s.program, function_name)
    THEN ROk(s.program.functions[function_name])
    ELSE RErr(ErrFunctionMissing)

RECURSIVE get_number_of_calls_from(_, _, _, _, _)
RECURSIVE get_number_of_calls_at(_, _, _)
\* The loop of get_number_of_calls from instruction i on, with num_calls so
\* far; every ? returns the error at once.
get_number_of_calls_from(s, instructions, i, num_calls, depth) ==
    IF i > Len(instructions) THEN ROk(num_calls)
    ELSE IF instructions[i].opcode # "call"
    THEN get_number_of_calls_from(s, instructions, i + 1, num_calls, depth)
    ELSE IF ~is_function_call(instructions[i], s).ok
    THEN is_function_call(instructions[i], s)
    ELSE IF ~is_function_call(instructions[i], s).val
    THEN get_number_of_calls_from(s, instructions, i + 1, num_calls, depth)
    ELSE LET callee ==
                 IF instructions[i].operator = "Locator"
                 THEN IF get_external_stack(s, instructions[i].program_id).ok
                      THEN get_number_of_calls_at(
                               get_external_stack(s, instructions[i].program_id).val,
                               instructions[i].resource, depth + 1)
                      ELSE get_external_stack(s, instructions[i].program_id)
                 ELSE get_number_of_calls_at(s, instructions[i].resource, depth + 1)
         IN  IF callee.ok
             THEN get_number_of_calls_from(s, instructions, i + 1,
                                           num_calls + callee.val, depth)
             ELSE callee

\* get_number_of_calls entered at the given depth of recursion; beyond MaxDepth
\* nested calls the recursion ends in a stack overflow instead of a result.
get_number_of_calls_at(s, function_name, depth) ==
    IF depth > MaxDepth THEN RErr(Unbounded)
    ELSE IF ~get_function(s, function_name).ok THEN get_function(s, function_name)
    ELSE get_number_of_calls_from(s, get_function(s, function_name).val, 1, 1, depth)

\* Variant of get_number_of_calls that does not count the function itself.
get_number_of_calls_callees_only(s, function_name) ==
    IF get_number_of_calls_at(s, function_name, 1).ok
    THEN ROk(get_number_of_calls_at(s, function_name, 1).val - 1)
    ELSE get_number_of_calls_at(s, function_name, 1)

\* Stack::get_number_of_calls(&self, function_name) -> Result<usize>
get_number_of_calls(s, function_name) == get_number_of_calls_at(s, function_name, 1)

\* The instruction lists of up to two instructions over an alphabet.
Bodies(alphabet) ==
    {<<>>} \cup {<<a>> : a \in alphabet} \cup {<<a, b>> : a \in alphabet, b \in alphabet}

\* The imported program: functions e and e2, closure c2; e calls e2 or c2.
ExtPrograms ==
    {Program(ExtID, [n \in {"e", "e2"} |-> IF n = "e" THEN be ELSE <<>>], {"c2"}, {}) :
        be \in Bodies({CallResource("e2"), CallResource("c2")})}

\* The main program: functions f, h and k, closure c. f holds any two
\* instructions; h calls k or itself; k returns or calls h back.
MainPrograms ==
    {Program(MainID,
             [n \in {"f", "h", "k"} |-> IF n = "f" THEN bf ELSE IF n = "h" THEN bh ELSE bk],
             {"c"}, {}) :
        bf \in Bodies({Other, CallResource("h"), CallResource("c"), CallResource("f"),
                       CallLocator(ExtID, "e"), CallLocator(ExtID, "c2"),
                       CallLocator(MissingID, "e"), CallLocator(MainID, "h")}),
        bh \in Bodies({CallResource("k"), CallResource("h")}),
        bk \in {<<>>, <<CallResource("h")>>}}

\* The Stacks whose calls are counted: a main program linked with the
\* imported program, or with nothing.
CallingStacks ==
    {Stack(main, [id \in ids |-> LeafStack(ext)], TypesOf(main)) :
        main \in MainPrograms, ext \in ExtPrograms, ids \in {{}, {ExtID}}}

\* The names get_number_of_calls is asked about: the functions, a closure.
CallNames == {"f", "h", "k", "c"}

\* A program without functions' bodies of interest: one function, some records.
PlainProgram(id, records) == Program(id, [f \in {"f1"} |-> <<>>], {}, records)

\* The Stacks to look things up in: the main program with any records, and
\* external_stacks with an entry for the import, for the main program's own
\* ID, for both or for neither; the entries' programs declare any records.
LookupStacks ==
    {Stack(PlainProgram(MainID, rs), [id \in ids |-> LeafStack(PlainProgram(id, ers))],
           TypesOf(PlainProgram(MainID, rs))) :
        rs \in SUBSET RecordNames, ids \in SUBSET {MainID, ExtID}, ers \in SUBSET RecordNames}

\* No lookup made yet.
NoLookup == [op |-> "none", arg |-> "none", result |-> RErr("")]

\* The lookups, applied to the Stack with any argument.
call_get_external_stack(program_id) ==
    /\ lookup' = [op |-> "get_external_stack", arg |-> program_id,
                  result |-> get_external_stack(stack, program_id)]
    /\ UNCHANGED stack

call_get_external_program(program_id) ==
    /\ lookup' = [op |-> "get_external_program", arg |-> program_id,
                  result |-> get_external_program(stack, program_id)]
    /\ UNCHANGED stack

call_contains_external_record(locator) ==
    /\ lookup' = [op |-> "contains_external_record", arg |-> locator,
                  result |-> contains_external_record(stack, locator)]
    /\ UNCHANGED stack

call_get_external_record(locator) ==
    /\ lookup' = [op |-> "get_external_record", arg |-> locator,
                  result |-> get_external_record(stack, locator)]
    /\ UNCHANGED stack

call_get_number_of_calls(function_name) ==
    /\ lookup' = [op |-> "get_number_of_calls", arg |-> function_name,
                  result |-> get_number_of_calls(stack, function_name)]
    /\ UNCHANGED stack

\* get_number_of_calls on a linked Stack, for any of its names.
NextCalls ==
    \E function_name \in CallNames :
        call_get_number_of_calls(function_name) /\ UNCHANGED <<csvars, keyvars, eqvars, prover>>

(***************************************************************************)
(* Stack: construction.                                                    *)
(***************************************************************************)
\* A program ID outside the aleo network-level domain.
ForeignID == "main.eth"

\* ProgramID::is_aleo: the network-level domain of the ID is "aleo".
is_aleo(program_id) == program_id # ForeignID

\* Process::contains_program
contains_program(process, program_id) == program_id \in process

\* How the program's codecs behave: the byte codec is exact, loses the
\* records, or fails in one direction; the text codec is exact, loses the
\* closures, or does not parse its own output.
ByteCodecs == {"exact", "drops_records", "encode_error", "decode_error"}

TextCodecs == {"exact", "drops_closures", "parse_error"}

\* Program::to_bytes_le -> Result<Vec<u8>>
to_bytes_le(program, codec) ==
    IF codec = "encode_error" THEN RErr("to_bytes_le failed")
    ELSE ROk(<<program.id, program.functions, program.closures,
               IF codec = "drops_records" THEN {} ELSE program.records>>)

\* Program::from_bytes_le -> Result<Program>
from_bytes_le(bytes, codec) ==
    IF codec = "decode_error" THEN RErr("from_bytes_le failed")
    ELSE ROk(Program(bytes[1], bytes[2], bytes[3], bytes[4]))

\* Program::to_string
to_string(program, codec) ==
    [program |-> program.id, functions |-> program.functions,
     closures |-> IF codec = "drops_closures" THEN {} ELSE program.closures,
     records |-> program.records]

\* Program::from_str -> Result<Program>
from_str(string, codec) ==
    IF codec = "parse_error" THEN RErr("from_str failed")
    ELSE ROk(Program(string.program, string.functions, string.closures, string.records))

\* Stack::initialize(process, program) -> Result<Stack>
initialize(process, program) == ROk(LeafStack(program))

ErrExists == "Program already exists"

ErrDomain == "Program has an incorrect network-level domain (NLD)"

ErrNoFunctions == "No functions present in the deployment for program"

ErrBytes == "Program byte serialization failed"

ErrString == "Program string serialization failed"

\* The outcome of Stack::new: the result, and the calls it made on the way.
Outcome(result, made) == [result |-> result, made |-> made]

\* Variant of Stack::new without the round trip through the string form.
new_without_string_check(process, program, codecs) ==
    IF contains_program(process, program.id)
    THEN Outcome(RErr(ErrExists), <<"contains_program">>)
    ELSE IF ~is_aleo(program.id)
    THEN Outcome(RErr(ErrDomain), <<"contains_program", "is_aleo">>)
    ELSE IF DOMAIN program.functions = {}
    THEN Outcome(RErr(ErrNoFunctions), <<"contains_program", "is_aleo", "functions">>)
    ELSE IF ~to_bytes_le(program, codecs.bytes).ok
    THEN Outcome(to_bytes_le(program, codecs.bytes),
                 <<"contains_program", "is_aleo", "functions", "to_bytes_le">>)
    ELSE IF ~from_bytes_le(to_bytes_le(program, codecs.bytes).val, codecs.bytes).ok
    THEN Outcome(from_bytes_le(to_bytes_le(program, codecs.bytes).val, codecs.bytes),
                 <<"contains_program", "is_aleo", "functions", "to_bytes_le",
                   "from_bytes_le">>)
    ELSE IF program # from_bytes_le(to_bytes_le(program, codecs.bytes).val, codecs.bytes).val
    THEN Outcome(RErr(ErrBytes),
                 <<"contains_program", "is_aleo", "functions", "to_bytes_le",
                   "from_bytes_le">>)
    ELSE Outcome(initialize(process, program),
                 <<"contains_program", "is_aleo", "functions", "to_bytes_le",
                   "from_bytes_le", "initialize">>)

\* Stack::new(process, program) -> Result<Stack>: each ensure!() and each ?
\* returns its error at once; initialize is the last call.
new(process, program, codecs) ==
    IF contains_program(process, program.id)
    THEN Outcome(RErr(ErrExists), <<"contains_program">>)
    ELSE IF ~is_aleo(program.id)
    THEN Outcome(RErr(ErrDomain), <<"contains_program", "is_aleo">>)
    ELSE IF DOMAIN program.functions = {}
    THEN Outcome(RErr(ErrNoFunctions), <<"contains_program", "is_aleo", "functions">>)
    ELSE IF ~to_bytes_le(program, codecs.bytes).ok
    THEN Outcome(to_bytes_le(program, codecs.bytes),
                 <<"contains_program", "is_aleo", "functions", "to_bytes_le">>)
    ELSE IF ~from_bytes_le(to_bytes_le(program, codecs.bytes).val, codecs.bytes).ok
    THEN Outcome(from_bytes_le(to_bytes_le(program, codecs.bytes).val, codecs.bytes),
                 <<"contains_program", "is_aleo", "functions", "to_bytes_le",
                   "from_bytes_le">>)
    ELSE IF program # from_bytes_le(to_bytes_le(program, codecs.bytes).val, codecs.bytes).val
    THEN Outcome(RErr(ErrBytes),
                 <<"contains_program", "is_aleo", "functions", "to_bytes_le",
                   "from_bytes_le">>)
    ELSE IF ~from_str(to_string(program, codecs.text), codecs.text).ok
    THEN Outcome(from_str(to_string(program, codecs.text), codecs.text),
                 <<"contains_program", "is_aleo", "functions", "to_bytes_le",
                   "from_bytes_le", "to_string", "from_str">>)
    ELSE IF program # from_str(to_string(program, codecs.text), codecs.text).val
    THEN Outcome(RErr(ErrString),
                 <<"contains_program", "is_aleo", "functions", "to_bytes_le",
                   "from_bytes_le", "to_string", "from_str">>)
    ELSE Outcome(initialize(process, program),
                 <<"contains_program", "is_aleo", "functions", "to_bytes_le",
                   "from_bytes_le", "to_string", "from_str", "initialize">>)

\* The programs handed to Stack::new: in or out of the aleo domain, with one
\* function or none, with or without a closure and a record.
NewPrograms ==
    {Program(id, [f \in fs |-> <<>>], cl, rs) :
        id \in {MainID, ForeignID}, fs \in {{}, {"f1"}},
        cl \in SUBSET {"c"}, rs \in SUBSET {"token"}}

\* The processes: the programs they have loaded already.
Processes == SUBSET {MainID, ForeignID}

\* The arguments of a call of Stack::new.
NewArguments ==
    [process : Processes, program : NewPrograms,
     codecs : [bytes : ByteCodecs, text : TextCodecs]]

call_new(arguments) ==
    /\ lookup' = [op |-> "new", arg |-> arguments,
                  result |-> new(arguments.process, arguments.program, arguments.codecs)]
    /\ UNCHANGED stack

\* Stack::new with any process, program and codecs.
NextNew ==
    \E arguments \in NewArguments :
        call_new(arguments) /\ UNCHANGED <<csvars, keyvars, eqvars, prover>>

(***************************************************************************)
(* Stack: equality.                                                        *)
(***************************************************************************)
\* The two Stacks that are compared.
Sides == {"self", "other"}

\* The cells of the key caches: those of the two Stacks, and those of the
\* imported Stack, which both hold as a clone.
KeyCells == 1..6

\* struct Stack with its key caches: Arc pointers to cells.
StackWithKeys(s, pk, vk) ==
    [program |-> s.program, external_stacks |-> s.external_stacks,
     program_types |-> s.program_types, proving_keys |-> pk, verifying_keys |-> vk]

RECURSIVE eq_derived(_, _)
\* Variant of eq that compares every field, the key caches included, as a
\* derived PartialEq would.
eq_derived(a, b) ==
    /\ a.program = b.program
    /\ DOMAIN a.external_stacks = DOMAIN b.external_stacks
    /\ \A id \in DOMAIN a.external_stacks :
           eq_derived(a.external_stacks[id], b.external_stacks[id])
    /\ a.program_types = b.program_types
    /\ keycells[a.proving_keys] = keycells[b.proving_keys]
    /\ keycells[a.verifying_keys] = keycells[b.verifying_keys]

RECURSIVE eq(_, _)
\* impl PartialEq for Stack: program, external_stacks (an IndexMap of Stacks,
\* compared entry by entry with this same eq) and program_types.
eq(a, b) ==
    /\ a.program = b.program
    /\ DOMAIN a.external_stacks = DOMAIN b.external_stacks
    /\ \A id \in DOMAIN a.external_stacks :
           eq(a.external_stacks[id], b.external_stacks[id])
    /\ a.program_types = b.program_types

\* A program with the functions the key caches are about, and some records.
KeyedProgram(id, records) == Program(id, [f \in Functions |-> <<>>], {}, records)

\* The Stacks built from a main program, alone or linked with an import.
BuiltStacks ==
    {Stack(KeyedProgram(MainID, rs),
           [id \in ids |-> StackWithKeys(LeafStack(KeyedProgram(id, ers)), 5, 6)],
           TypesOf(KeyedProgram(MainID, rs))) :
        rs \in SUBSET {"token"}, ids \in {{}, {ExtID}}, ers \in SUBSET {"token"}}

\* Both Stacks freshly built, each with its own empty caches.
InitPairs ==
    /\ pair \in {[self |-> StackWithKeys(a, 1, 2), other |-> StackWithKeys(b, 3, 4)] :
                     a \in BuiltStacks, b \in BuiltStacks}
    /\ keycells = [c \in KeyCells |-> EmptyMap]

\* Two Stacks that play no part in a behaviour.
IdlePair ==
    /\ pair = [side \in Sides |->
                 IF side = "self"
                 THEN StackWithKeys(LeafStack(KeyedProgram(MainID, {})), 1, 2)
                 ELSE StackWithKeys(LeafStack(KeyedProgram(MainID, {})), 3, 4)]
    /\ keycells = [c \in KeyCells |-> EmptyMap]

\* The cell behind one of a Stack's two caches.
CellOf(s, k) == IF k = "proving_keys" THEN s.proving_keys ELSE s.verifying_keys

\* insert_proving_key / insert_verifying_key on one of the Stacks by a single
\* caller: the whole call.
stack_insert_key(side, k, f, key) ==
    /\ IF contains_function(f)
       THEN /\ keycells' = [keycells EXCEPT
                               ![CellOf(pair[side], k)] = MapInsert(@, f, key)]
            /\ lookup' = [op |-> "insert_key", arg |-> side, result |-> OkUnit]
       ELSE /\ UNCHANGED keycells
            /\ lookup' = [op |-> "insert_key", arg |-> side, result |-> ErrNoFunction]
    /\ UNCHANGED pair

\* remove_proving_key / remove_verifying_key on one of the Stacks by a single
\* caller: the whole call.
stack_remove_key(side, k, f) ==
    /\ keycells' = [keycells EXCEPT ![CellOf(pair[side], k)] = MapRemove(@, f)]
    /\ lookup' = [op |-> "remove_key", arg |-> side, result |-> OkUnit]
    /\ UNCHANGED pair

\* self == other
call_eq ==
    /\ lookup' = [op |-> "eq", arg |-> "other", result |-> eq(pair.self, pair.other)]
    /\ UNCHANGED <<pair, keycells>>

NextEq ==
    \/ \E side \in Sides, k \in Caches, f \in Identifiers :
           stack_insert_key(side, k, f, "k1") /\ UNCHANGED <<csvars, keyvars, stack, prover>>
    \/ \E side \in Sides, k \in Caches, f \in Functions :
           stack_remove_key(side, k, f) /\ UNCHANGED <<csvars, keyvars, stack, prover>>
    \/ call_eq /\ UNCHANGED <<csvars, keyvars, stack, prover>>

(***************************************************************************)
(* Stack: clones.                                                          *)
(***************************************************************************)
\* The handles on Stacks: the two Stacks built separately, the clone of the
\* first, and the copy of the imported Stack that each of them stores.
Handles == {"self", "other", "clone", "self.ext", "other.ext", "clone.ext"}

\* The Stack that stores the imported copy behind a handle, or the handle itself.
Owner(h) ==
    IF h \in {"self", "self.ext"} THEN "self"
    ELSE IF h \in {"other", "other.ext"} THEN "other" ELSE "clone"

IsImport(h) == h \in {"self.ext", "other.ext", "clone.ext"}

\* The handle exists: its Stack does, and for an imported copy the import.
HasHandle(h) ==
    /\ Owner(h) \in DOMAIN pair
    /\ IsImport(h) => get_external_stack(pair[Owner(h)], ExtID).ok

\* The Stack behind a handle.
HandleStack(h) ==
    IF IsImport(h) THEN get_external_stack(pair[Owner(h)], ExtID).val ELSE pair[Owner(h)]

RECURSIVE clone(_)
\* #[derive(Clone)] for Stack: every field is cloned.  The program and the
\* program_types are copied, the external_stacks entry by entry with this same
\* clone, and the clone of an Arc is a pointer to the same cell.
clone(s) ==
    [program |-> s.program,
     external_stacks |-> [id \in DOMAIN s.external_stacks |-> clone(s.external_stacks[id])],
     program_types |-> s.program_types,
     proving_keys |-> s.proving_keys,
     verifying_keys |-> s.verifying_keys]

\* Variant of call_clone that gives the clone caches of its own, filled with
\* the current contents of the original's (Arc::new(RwLock::new(..read().clone()))).
call_clone_fresh_caches ==
    /\ "clone" \notin DOMAIN pair
    /\ LET n == Cardinality(DOMAIN keycells)
       IN /\ keycells' = [c \in 1..(n + 2) |->
                             IF c <= n THEN keycells[c]
                             ELSE IF c = n + 1 THEN keycells[pair.self.proving_keys]
                             ELSE keycells[pair.self.verifying_keys]]
          /\ pair' = [h \in DOMAIN pair \cup {"clone"} |->
                         IF h = "clone"
                         THEN [clone(pair.self) EXCEPT !.proving_keys = n + 1,
                                                       !.verifying_keys = n + 2]
                         ELSE pair[h]]
    /\ lookup' = [op |-> "clone", arg |-> <<"self">>, result |-> OkUnit]

\* let clone = self.clone();
call_clone ==
    /\ "clone" \notin DOMAIN pair
    /\ pair' = [h \in DOMAIN pair \cup {"clone"} |->
                   IF h = "clone" THEN clone(pair.self) ELSE pair[h]]
    /\ lookup' = [op |-> "clone", arg |-> <<"self">>, result |-> OkUnit]
    /\ UNCHANGED keycells

\* contains_proving_key / contains_verifying_key of Stack s, by a single caller.
stack_contains_key(s, k, f) == MapContainsKey(keycells[CellOf(s, k)], f)

\* get_proving_key / get_verifying_key of Stack s, by a single caller.
stack_get_key(s, k, f) ==
    IF MapContainsKey(keycells[CellOf(s, k)], f)
    THEN MapGet(keycells[CellOf(s, k)], f) ELSE ErrKeyNotFound

\* The four kinds of key-cache call through a handle, each the whole call.
handle_contains_key(h, k, f) ==
    /\ HasHandle(h)
    /\ lookup' = [op |-> "contains_key", arg |-> <<h, k, f>>,
                  result |-> BoolResult(stack_contains_key(HandleStack(h), k, f))]
    /\ UNCHANGED <<pair, keycells>>

handle_get_key(h, k, f) ==
    /\ HasHandle(h)
    /\ lookup' = [op |-> "get_key", arg |-> <<h, k, f>>,
                  result |-> stack_get_key(HandleStack(h), k, f)]
    /\ UNCHANGED <<pair, keycells>>

handle_insert_key(h, k, f, key) ==
    /\ HasHandle(h)
    /\ IF contains_function(f)
       THEN /\ keycells' = [keycells EXCEPT
                               ![CellOf(HandleStack(h), k)] = MapInsert(@, f, key)]
            /\ lookup' = [op |-> "insert_key", arg |-> <<h, k, f, key>>, result |-> OkUnit]
       ELSE /\ UNCHANGED keycells
            /\ lookup' = [op |-> "insert_key", arg |-> <<h, k, f, key>>,
                          result |-> ErrNoFunction]
    /\ UNCHANGED pair

handle_remove_key(h, k, f) ==
    /\ HasHandle(h)
    /\ keycells' = [keycells EXCEPT ![CellOf(HandleStack(h), k)] = MapRemove(@, f)]
    /\ lookup' = [op |-> "remove_key", arg |-> <<h, k, f>>, result |-> OkUnit]
    /\ UNCHANGED pair

\* The Stacks of the clone scenario, and the names its callers pass.
ClonedStacks == {s \in BuiltStacks : s.program.records = {"token"}}

CloneNames == {"f1", "g"}

\* A Stack is cloned, and keys are inserted, removed and looked up through
\* every handle.
NextClone ==
    \/ call_clone /\ UNCHANGED <<csvars, keyvars, stack, prover>>
    \/ \E h \in Handles, k \in Caches, f \in CloneNames :
           handle_contains_key(h, k, f) /\ UNCHANGED <<csvars, keyvars, stack, prover>>
    \/ \E h \in Handles, k \in Caches, f \in CloneNames :
           handle_get_key(h, k, f) /\ UNCHANGED <<csvars, keyvars, stack, prover>>
    \/ \E h \in Handles, k \in Caches, f \in CloneNames :
           handle_insert_key(h, k, f, "k1") /\ UNCHANGED <<csvars, keyvars, stack, prover>>
    \/ \E h \in Handles, k \in Caches, f \in CloneNames :
           handle_remove_key(h, k, f) /\ UNCHANGED <<csvars, keyvars, stack, prover>>

NextLookup ==
    \/ \E id \in ProgramIDs :
           call_get_external_stack(id) /\ UNCHANGED <<csvars, keyvars, eqvars, prover>>
    \/ \E id \in ProgramIDs :
           call_get_external_program(id) /\ UNCHANGED <<csvars, keyvars, eqvars, prover>>
    \/ \E locator \in Locators :
           call_contains_external_record(locator) /\ UNCHANGED <<csvars, keyvars, eqvars, prover>>
    \/ \E locator \in Locators :
           call_get_external_record(locator) /\ UNCHANGED <<csvars, keyvars, eqvars, prover>>

(***************************************************************************)
(* AHPForR1CS::init_prover.                                                *)
(***************************************************************************)
\* The prime field, small.
Field == 0..4

\* A circuit of the index: its sizes and the rows of its matrices A and B,
\* each row a list of (coefficient, variable index counted from 0).
Entry(coefficient, i) == [coefficient |-> coefficient, i |-> i]

Circuit1 ==
    [id |-> "circuit_1",
     index_info |-> [num_constraints |-> 3, num_variables |-> 3],
     a |-> << <<Entry(1, 0)>>, <<Entry(2, 1), Entry(1, 2)>>, <<Entry(3, 2)>> >>,
     b |-> << <<Entry(1, 1)>>, <<Entry(1, 0), Entry(4, 2)>>, <<>> >>]

Circuit2 ==
    [id |-> "circuit_2",
     index_info |-> [num_constraints |-> 2, num_variables |-> 2],
     a |-> << <<Entry(1, 1)>>, <<Entry(2, 0)>> >>,
     b |-> << <<Entry(3, 1)>>, <<Entry(1, 0), Entry(1, 1)>> >>]

CircuitOf(id) == IF id = "circuit_1" THEN Circuit1 ELSE Circuit2

\* An instance, given by the constraint system its synthesis and the padding
\* leave: the public and private variables and the number of constraints,
\* or a synthesis error.
Synthesized(public_variables, private_variables, num_constraints) ==
    [generate_constraints |-> "ok", public_variables |-> public_variables,
     private_variables |-> private_variables, num_constraints |-> num_constraints]

Unsynthesizable ==
    [generate_constraints |-> "error", public_variables |-> <<1>>,
     private_variables |-> <<>>, num_constraints |-> 0]

\* The instances of circuit 1: two that fit it, and one for each failure.
Instances1 ==
    {Synthesized(<<1, 2>>, <<3>>, 3), Synthesized(<<1, 4>>, <<1>>, 3),
     Unsynthesizable,
     Synthesized(<<1, 2>>, <<3>>, 4),
     Synthesized(<<1, 2>>, <<3, 3>>, 3),
     Synthesized(<<1, 2, 3>>, <<>>, 3)}

\* The instance lists of circuit 2: one instance that fits, or one that fails.
InstanceLists2 == {<<Synthesized(<<1>>, <<2>>, 2)>>, <<Unsynthesizable>>}

\* The lists of up to MaxInstances instances of circuit 1.
InstanceLists1 ==
    UNION {[1..n -> Instances1] : n \in 0..MaxInstances}

\* The inputs of init_prover: circuit 1 alone, or circuits 1 and 2.
ProverInputs ==
    {[c \in {"circuit_1"} |-> l1] : l1 \in InstanceLists1}
      \cup {[c \in {"circuit_1", "circuit_2"} |-> IF c = "circuit_1" THEN l1 ELSE l2] :
              l1 \in InstanceLists1, l2 \in InstanceLists2}

SynthesisError == "SynthesisError"

InstanceDoesNotMatchIndex == "AHPError::InstanceDoesNotMatchIndex"

InvalidPublicInputLength == "AHPError::InvalidPublicInputLength"

InitializeError == "AHPError from State::initialize"

\* Not yet returned, not yet collected.
NotYet == RErr("pending")

RECURSIVE inner_product_from(_, _, _, _, _, _)
\* The loop of inner_product from entry k of the row on.
inner_product_from(public_variables, private_variables, row, num_public_variables, k, result) ==
    IF k > Len(row) THEN result
    ELSE LET variable ==
                 IF row[k].i < num_public_variables
                 THEN public_variables[row[k].i + 1]
                 ELSE private_variables[row[k].i - num_public_variables + 1]
             term == IF row[k].coefficient = 1 THEN variable
                     ELSE (variable * row[k].coefficient) % Cardinality(Field)
         IN  inner_product_from(public_variables, private_variables, row,
                                num_public_variables, k + 1,
                                (result + term) % Cardinality(Field))

\* fn inner_product(public_variables, private_variables, row, num_public_variables) -> F
inner_product(public_variables, private_variables, row, num_public_variables) ==
    inner_product_from(public_variables, private_variables, row, num_public_variables, 1, 0)

\* AHPForR1CS::formatted_public_input_is_admissible: the length is a power of two.
formatted_public_input_is_admissible(public_variables) ==
    Len(public_variables) \in {1, 2, 4}

\* prover::Assignments(padded_public_variables, private_variables, z_a, z_b)
Assignments(public_variables, private_variables, z_a, z_b) ==
    [public_variables |-> public_variables, private_variables |-> private_variables,
     z_a |-> z_a, z_b |-> z_b]

\* Variant of the closure without the comparison with the circuit's index info.
assign_unchecked(circuit, instance) ==
    IF instance.generate_constraints = "error" THEN RErr(SynthesisError)
    ELSE IF ~formatted_public_input_is_admissible(instance.public_variables)
    THEN RErr(InvalidPublicInputLength)
    ELSE ROk(Assignments(instance.public_variables, instance.private_variables,
                         <<>>, <<>>))

\* The closure run for one instance of a circuit: synthesis, the comparison
\* with the circuit's index info, admissibility, then z_a and z_b.
assign(circuit, instance) ==
    IF instance.generate_constraints = "error" THEN RErr(SynthesisError)
    ELSE IF \/ circuit.index_info.num_constraints # instance.num_constraints
            \/ circuit.index_info.num_variables #
                 Len(instance.public_variables) + Len(instance.private_variables)
    THEN RErr(InstanceDoesNotMatchIndex)
    ELSE IF ~formatted_public_input_is_admissible(instance.public_variables)
    THEN RErr(InvalidPublicInputLength)
    ELSE ROk(Assignments(
                 instance.public_variables, instance.private_variables,
                 [r \in 1..Len(circuit.a) |->
                     inner_product(instance.public_variables, instance.private_variables,
                                   circuit.a[r], Len(instance.public_variables))],
                 [r \in 1..Len(circuit.b) |->
                     inner_product(instance.public_variables, instance.private_variables,
                                   circuit.b[r], Len(instance.public_variables))]))

\* The outputs the workers have finished for a circuit, in order of completion.
DoneOf(c) == SelectSeq(prover.done, LAMBDA d : d.circuit = c)

\* Variant of collected_vec that keeps the outputs in order of completion.
collected_vec_as_completed(c) == [k \in 1..Len(DoneOf(c)) |-> DoneOf(c)[k].result.val]

\* collect::<Result<Vec<_>, _>>() over the enumerated instances when none
\* failed: the output of instance i at position i.
collected_vec(c) ==
    [i \in 1..Len(DoneOf(c)) |->
        (CHOOSE d \in {DoneOf(c)[k] : k \in 1..Len(DoneOf(c))} : d.i = i).result.val]

IsDone(c, i) == \E k \in 1..Len(prover.done) : prover.done[k].circuit = c /\ prover.done[k].i = i

\* The errors the workers have found so far in a circuit's instances.
ErrorsOf(c) ==
    {RErr(e) : e \in {DoneOf(c)[k].result.err : k \in 1..Len(DoneOf(c))} \ {""}}

\* init_prover has been called with some circuits; no worker has started.
InitProver ==
    prover \in {[circuits |-> input, done |-> <<>>,
                 collected |-> [c \in DOMAIN input |-> NotYet], ret |-> NotYet] :
                   input \in ProverInputs}

\* init_prover is not running.
IdleProver ==
    prover = [circuits |-> <<>>, done |-> <<>>, collected |-> <<>>, ret |-> NotYet]

\* A worker runs the closure for instance i of circuit c.
synthesize(c, i) ==
    /\ prover.ret.err = NotYet.err
    /\ prover.collected[c].err = NotYet.err
    /\ ~IsDone(c, i)
    /\ prover' = [prover EXCEPT
                    !.done = Append(@, [circuit |-> c, i |-> i,
                                        result |-> assign(CircuitOf(c),
                                                          prover.circuits[c][i])])]

\* The instances of circuit c are collected: an error a worker found, at
\* once, or the vector of all the outputs.
collect_assignments(c) ==
    /\ prover.ret.err = NotYet.err
    /\ prover.collected[c].err = NotYet.err
    /\ \/ \E e \in ErrorsOf(c) : prover' = [prover EXCEPT !.collected[c] = e]
       \/ /\ ErrorsOf(c) = {}
          /\ \A i \in 1..Len(prover.circuits[c]) : IsDone(c, i)
          /\ prover' = [prover EXCEPT !.collected[c] = ROk(collected_vec(c))]

\* prover::State::initialize(indices_and_assignments) -> Result<State, AHPError>
State_initialize(indices_and_assignments) ==
    {ROk([indices_and_assignments |-> indices_and_assignments]), RErr(InitializeError)}

\* The circuits are collected and init_prover returns: an error of a circuit,
\* at once, or what State::initialize makes of the map.
return_state ==
    /\ prover.ret.err = NotYet.err
    /\ \/ \E c \in DOMAIN prover.circuits :
              /\ prover.collected[c].err # NotYet.err
              /\ ~prover.collected[c].ok
              /\ prover' = [prover EXCEPT !.ret = prover.collected[c]]
       \/ /\ \A c \in DOMAIN prover.circuits : prover.collected[c].ok
          /\ \E state \in State_initialize(
                            [c \in DOMAIN prover.circuits |-> prover.collected[c].val]) :
                 prover' = [prover EXCEPT !.ret = state]

NextProver ==
    \/ \E c \in DOMAIN prover.circuits, i \in 1..MaxInstances :
           /\ i <= Len(prover.circuits[c])
           /\ synthesize(c, i)
           /\ UNCHANGED <<csvars, keyvars, linkvars, eqvars>>
    \/ \E c \in DOMAIN prover.circuits :
           collect_assignments(c) /\ UNCHANGED <<csvars, keyvars, linkvars, eqvars>>
    \/ return_state /\ UNCHANGED <<csvars, keyvars, linkvars, eqvars>>

\* A Stack that plays no part in a behaviour, and its untouched lookup.
IdleStack == LeafStack(PlainProgram(MainID, {}))

InitLink == stack = IdleStack /\ lookup = NoLookup /\ IdlePair /\ IdleProver

\* A CallStack of any variant is in use; nobody works on the key caches.
InitCallStackSpec == InitCallStacks /\ InitStack /\ InitLink

\* A Stack shared by the threads; the CallStack is a bystander.
InitKeys == InitStack /\ InitCallStackOf("Evaluate") /\ InitLink

\* A linked Stack on which lookups are made.
InitLookup ==
    /\ InitStack
    /\ InitCallStackOf("Evaluate")
    /\ stack \in LookupStacks
    /\ lookup = NoLookup
    /\ IdlePair
    /\ IdleProver

\* A linked Stack whose functions call each other and the import.
InitCalls ==
    /\ InitStack
    /\ InitCallStackOf("Evaluate")
    /\ stack \in CallingStacks
    /\ lookup = NoLookup
    /\ IdlePair
    /\ IdleProver

\* Two Stacks built separately, to be compared.
InitEq ==
    /\ InitStack
    /\ InitCallStackOf("Evaluate")
    /\ stack = IdleStack
    /\ lookup = NoLookup
    /\ InitPairs
    /\ IdleProver

\* Two Stacks built separately, each with its own empty caches, before any clone.
InitClone ==
    /\ InitStack
    /\ InitCallStackOf("Evaluate")
    /\ stack = IdleStack
    /\ lookup = NoLookup
    /\ pair \in {[self |-> StackWithKeys(a, 1, 2), other |-> StackWithKeys(b, 3, 4)] :
                     a \in ClonedStacks, b \in ClonedStacks}
    /\ keycells = [c \in KeyCells |-> EmptyMap]
    /\ IdleProver

\* init_prover called with some circuits and their instances.
InitProverSpec ==
    /\ InitStack
    /\ InitCallStackOf("Evaluate")
    /\ stack = IdleStack
    /\ lookup = NoLookup
    /\ IdlePair
    /\ InitProver

\* CallStacks in use; the Stack's key caches are left alone.
SpecCallStack == InitCallStackSpec /\ [][NextCallStack]_vars

\* The concurrent-writers scenario on one Stack's key caches.
SpecInserts == InitKeys /\ [][NextInserts]_vars

\* Threads working on one Stack's key caches; no CallStack operation is made.
SpecKeys == InitKeys /\ [][NextKeys]_vars

\* Lookups of external stacks, programs and records on a linked Stack.
SpecLookup == InitLookup /\ [][NextLookup]_vars

\* The static count of calls of the functions of a linked Stack.
SpecCalls == InitCalls /\ [][NextCalls]_vars

\* The workers of init_prover in any order.
SpecProver == InitProverSpec /\ [][NextProver]_vars

\* Stacks under construction.
SpecNew == InitKeys /\ [][NextNew]_vars

\* Two Stacks compared while keys are cached in either of them.
SpecEq == InitEq /\ [][NextEq]_vars

\* Clones of a Stack and the key-cache calls through every handle.
SpecClone == InitClone /\ [][NextClone]_vars

\* The key-cache operations under fair scheduling: a thread inside a call is
\* scheduled, and parking_lot's RwLock is task-fair, so a thread whose lock is
\* free again and again gets it (neither readers nor writers starve).
SpecLocksFair ==
    /\ InitKeys
    /\ [][NextLocks]_vars
    /\ \A t \in Threads : SF_vars(Proceed(t))

(***************************************************************************)
(* Histories and views used by the properties.                             *)
(***************************************************************************)
Elems(s) == {s[i] : i \in 1..Len(s)}

\* The position of x in the sequence s (x occurs in s).
Pos(s, x) == CHOOSE i \in 1..Len(s) : s[i] = x

\* The requests pushed on c (or inherited by replicate) and not yet popped.
Outstanding(c) == Elems(pushed[c]) \ Elems(popped[c])

\* What CallStack c denotes: its variant, key, pending list and the contents
\* of the lock-guarded values it points to.
ViewIn(stacks, cells, c) ==
    [variant       |-> stacks[c].variant,
     private_key   |-> stacks[c].private_key,
     requests      |-> stacks[c].requests,
     authorization |-> IF stacks[c].authorization = 0 THEN <<>>
                       ELSE cells[stacks[c].authorization],
     payload       |-> IF stacks[c].payload = 0 THEN <<>>
                       ELSE cells[stacks[c].payload]]

View(c) == ViewIn(cs, heap, c)

\* The pending requests of c, wherever its variant keeps them.
Pending(c) == IF IsExplicit(c) THEN cs[c].requests ELSE heap[cs[c].authorization]

(***************************************************************************)
(* C1.  On an Authorize, Synthesize or CheckDeployment CallStack a         *)
(* successful pop returns the most recently pushed request that has not    *)
(* been popped yet: every request still outstanding after the pop was      *)
(* pushed before the one returned.  In particular, when three requests     *)
(* were pushed and then three pops were made (the first pop returned the   *)
(* third push), the pops returned r3, r2, r1.                              *)
(***************************************************************************)
C1_LifoPop ==
    \A c \in CSIds :
        Live(c) /\ IsExplicit(c) =>
            /\ (ret.op = "pop" /\ ret.cs = c /\ ret.kind = "ok") =>
                   /\ ret.res \in Elems(pushed[c])
                   /\ ret.res \notin Outstanding(c)
                   /\ \A x \in Outstanding(c) :
                          Pos(pushed[c], x) < Pos(pushed[c], ret.res)
            /\ (Len(pushed[c]) = 3 /\ Len(popped[c]) = 3 /\ popped[c][1] = pushed[c][3]) =>
                   popped[c] = <<pushed[c][3], pushed[c][2], pushed[c][1]>>

\* Three pushes then three pops on an explicit-list variant, the last pop just made.
C1_Witness ==
    \E c \in CSIds :
        /\ Live(c) /\ IsExplicit(c)
        /\ ret.op = "pop" /\ ret.cs = c /\ ret.kind = "ok"
        /\ Len(pushed[c]) = 3
        /\ popped[c] = <<pushed[c][3], pushed[c][2], pushed[c][1]>>

(***************************************************************************)
(* C2.  On an Evaluate or Execute CallStack pop yields the requests in the *)
(* order they were enqueued: the requests popped so far are a prefix of    *)
(* the requests pushed, and every request outstanding after a successful   *)
(* pop was pushed after the one returned.                                  *)
(***************************************************************************)
C2_FifoPop ==
    \A c \in CSIds :
        Live(c) /\ IsDelegated(c) =>
            /\ Len(popped[c]) <= Len(pushed[c])
            /\ popped[c] = SubSeq(pushed[c], 1, Len(popped[c]))
            /\ (ret.op = "pop" /\ ret.cs = c /\ ret.kind = "ok") =>
                   \A x \in Outstanding(c) :
                       Pos(pushed[c], ret.res) < Pos(pushed[c], x)

\* Three pushes then three pops on a delegated variant yielded r1, r2, r3.
C2_Witness ==
    \E c \in CSIds :
        /\ Live(c) /\ IsDelegated(c)
        /\ ret.op = "pop" /\ ret.cs = c /\ ret.kind = "ok"
        /\ Len(pushed[c]) = 3
        /\ popped[c] = pushed[c]

(***************************************************************************)
(* C3.  pop and peek on an explicit-list CallStack whose pending list is   *)
(* empty return the error "No more requests on the stack" (no panic, no    *)
(* request) and leave the CallStacks and the guarded values unchanged.     *)
(***************************************************************************)
C3_Underflow ==
    [][ (/\ ret'.op \in {"pop", "peek"}
         /\ IsExplicit(ret'.cs)
         /\ cs[ret'.cs].requests = <<>>)
        => (/\ ret'.kind = "err"
            /\ ret'.msg = NoMoreRequests
            /\ ret'.res = 0
            /\ cs' = cs
            /\ heap' = heap) ]_vars

\* A pop just failed on an explicit-list CallStack that had requests before.
C3_Witness ==
    /\ ret.op \in {"pop", "peek"}
    /\ ret.kind = "err"
    /\ IsExplicit(ret.cs)
    /\ cs[ret.cs].requests = <<>>
    /\ pushed[ret.cs] # <<>>

(***************************************************************************)
(* C4.  peek returns exactly what a pop made in the same state would       *)
(* return, fails exactly when that pop would fail, and leaves the pending  *)
(* list and the Authorization's queue unchanged; a pop that immediately    *)
(* follows a peek on the same CallStack returns the peeked result.         *)
(***************************************************************************)
C4_PeekMirrorsPop ==
    [][ /\ ret'.op = "peek" =>
              /\ cs' = cs
              /\ heap' = heap
              /\ (ret'.kind = "ok") = pop_result(ret'.cs).some
              /\ ret'.kind = "ok" => ret'.res = pop_result(ret'.cs).val
        /\ (ret.op = "peek" /\ ret'.op = "pop" /\ ret'.cs = ret.cs) =>
              /\ ret'.kind = ret.kind
              /\ ret'.res = ret.res
              /\ ret'.msg = ret.msg ]_vars

\* A peek just succeeded on a CallStack holding several pending requests.
C4_Witness ==
    /\ ret.op = "peek"
    /\ ret.kind = "ok"
    /\ Len(Pending(ret.cs)) >= 2

(***************************************************************************)
(* C5.  replicate() returns a CallStack of the same variant whose pending  *)
(* list and guarded values equal the original's at that moment, and the    *)
(* two are not aliased: an operation on one CallStack (push, pop, peek, a  *)
(* write through its payload, a replicate into it) changes the view of no  *)
(* other CallStack.                                                        *)
(***************************************************************************)
C5_ReplicaIndependent ==
    [][ /\ ret'.op = "replicate" => ViewIn(cs', heap', ret'.cs) = View(ret'.from)
        /\ \A c \in CSIds : (Live(c) /\ ret'.cs # c) => ViewIn(cs', heap', c) = View(c) ]_vars

\* A replica and its original have diverged in their guarded payload.
C5_Witness ==
    \E c \in CSIds, d \in CSIds :
        /\ Live(c) /\ Live(d) /\ c # d
        /\ HasPayload(cs[c].variant)
        /\ View(c).payload # View(d).payload
        /\ View(c).payload # <<>>
        /\ View(d).payload # <<>>


(***************************************************************************)
(* Who is inside a key cache's critical section.                           *)
(***************************************************************************)
Inside(k) == {t \in Threads : thr[t].pc = "locked" /\ CacheOfOp(thr[t].op) = k}

WritersInside(k) == {t \in Inside(k) : thr[t].op \in WriteOps}

ReadersInside(k) == Inside(k) \ WritersInside(k)

\* Thread t takes a step of the operation op (its record changes while in op).
StepsIn(t, ops) == thr[t].op \in ops /\ thr'[t] # thr[t]

(***************************************************************************)
(* C6.  In every reachable state, under every interleaving of the threads' *)
(* insert, remove, contains and get calls, a function name with an entry   *)
(* in proving_keys or in verifying_keys is declared in the program.        *)
(***************************************************************************)
C6_KeysOnlyForFunctions ==
    \A f \in Identifiers :
        (proving_keys[f] # NoKey \/ verifying_keys[f] # NoKey) => f \in Functions

\* Both caches hold keys and an insert for an undeclared name has been rejected.
C6_Witness ==
    /\ \E f \in Functions : proving_keys[f] # NoKey
    /\ \E f \in Functions : verifying_keys[f] # NoKey
    /\ \E t \in Threads : thr[t].ret = ErrNoFunction

(***************************************************************************)
(* C7.  insert_proving_key / insert_verifying_key called with a name that  *)
(* the program does not declare returns the error in its only step, which  *)
(* takes no lock and leaves both caches exactly as they were; the name has *)
(* no proving key (nor verifying key) afterwards.                          *)
(***************************************************************************)
C7_InsertRejected ==
    [][ \A t \in Threads :
            (/\ StepsIn(t, {"insert_proving_key", "insert_verifying_key"})
             /\ thr[t].name \notin Functions)
            => (/\ thr'[t] = Idle(ErrNoFunction)
                /\ proving_keys' = proving_keys
                /\ verifying_keys' = verifying_keys
                /\ rwlock' = rwlock
                /\ proving_keys'[thr[t].name] = NoKey
                /\ verifying_keys'[thr[t].name] = NoKey) ]_vars

\* An insert was rejected while the other thread was inside a cache.
C7_Witness ==
    \E t \in Threads, u \in Threads :
        /\ thr[t] = Idle(ErrNoFunction)
        /\ thr[u].pc = "locked"
        /\ thr[u].op \in WriteOps

(***************************************************************************)
(* C8.  Key-cache isolation: a step of insert_proving_key(f, k) or         *)
(* remove_proving_key(f) leaves verifying_keys and the proving-key entry   *)
(* of every other function unchanged, symmetrically for the verifying-key  *)
(* operations; and no step but the write of an insert or remove changes a  *)
(* cache at all.                                                           *)
(***************************************************************************)
C8_CacheIsolation ==
    [][ /\ \A t \in Threads :
              StepsIn(t, {"insert_proving_key", "remove_proving_key"}) =>
                  /\ verifying_keys' = verifying_keys
                  /\ \A g \in Identifiers \ {thr[t].name} :
                         proving_keys'[g] = proving_keys[g]
        /\ \A t \in Threads :
              StepsIn(t, {"insert_verifying_key", "remove_verifying_key"}) =>
                  /\ proving_keys' = proving_keys
                  /\ \A g \in Identifiers \ {thr[t].name} :
                         verifying_keys'[g] = verifying_keys[g]
        /\ (\A t \in Threads : ~(StepsIn(t, WriteOps) /\ thr[t].pc = "locked")) =>
              /\ proving_keys' = proving_keys
              /\ verifying_keys' = verifying_keys ]_vars

\* A proving key was just inserted for f1; f1 has no verifying key, and f2
\* has both keys.
C8_Witness ==
    /\ \E t \in Threads : thr[t] = Idle(OkUnit)
    /\ proving_keys["f1"] # NoKey
    /\ verifying_keys["f1"] = NoKey
    /\ proving_keys["f2"] # NoKey
    /\ verifying_keys["f2"] # NoKey

(***************************************************************************)
(* C9.  Concurrent inserts into distinct slots lose no update: once a      *)
(* thread's insert has returned Ok, the slot (cache, function name) holds  *)
(* the key it inserted, whatever the interleaving with the other threads'  *)
(* inserts, unless another thread inserted into that same slot.            *)
(***************************************************************************)
SameSlot(a, b) == a.cache = b.cache /\ a.name = b.name

C9_NoLostUpdate ==
    \A t \in Threads :
        (/\ inserted[t] # NoInsert
         /\ \A u \in Threads \ {t} : ~SameSlot(inserted[u], inserted[t]))
        => Cache(inserted[t].cache)[inserted[t].name] = inserted[t].key

\* All calls have returned: the threads inserted different functions' keys
\* into the same cache.
C9_Witness ==
    /\ \A t \in Threads : thr[t].pc = "idle" /\ inserted[t] # NoInsert
    /\ \A t \in Threads, u \in Threads :
           t # u => /\ inserted[t].cache = inserted[u].cache
                    /\ inserted[t].name # inserted[u].name

(***************************************************************************)
(* C10.  For each key cache, either no thread holds the write lock and     *)
(* only readers (contains and get calls) are inside, or exactly one writer *)
(* (an insert or remove call) is inside, holding the write lock, and no    *)
(* reader                                                                  *)
(* is inside.                                                              *)
(***************************************************************************)
C10_ReadersOrWriter ==
    \A k \in Caches :
        \/ /\ rwlock[k].writer = NoThread
           /\ WritersInside(k) = {}
           /\ ReadersInside(k) = rwlock[k].readers
        \/ /\ rwlock[k].writer \in Threads
           /\ WritersInside(k) = {rwlock[k].writer}
           /\ ReadersInside(k) = {}
           /\ rwlock[k].readers = {}

\* Two readers are inside the proving-key cache at the same time.
C10_Witness ==
    /\ Cardinality(ReadersInside("proving_keys")) >= 2
    /\ verifying_keys # EmptyMap


(***************************************************************************)
(* C16.  Insert overwrites and get reflects it: the write of               *)
(* insert_proving_key(f, k) leaves k cached for f whatever was cached      *)
(* before and returns Ok; get_proving_key(f) returns the key cached for f  *)
(* when there is one and the not-found error otherwise;                    *)
(* contains_proving_key(f) returns whether there is one.  Likewise for the *)
(* verifying keys.                                                         *)
(***************************************************************************)
Returns(t, ops) == StepsIn(t, ops) /\ thr[t].pc = "locked"

C16_InsertOverwritesGetReflects ==
    [][ \A t \in Threads :
          LET k == CacheOfOp(thr[t].op)
              f == thr[t].name
          IN  /\ Returns(t, {"insert_proving_key", "insert_verifying_key"}) =>
                    /\ IF k = "proving_keys" THEN proving_keys'[f] = thr[t].key
                                             ELSE verifying_keys'[f] = thr[t].key
                    /\ thr'[t] = Idle(OkUnit)
              /\ Returns(t, {"get_proving_key", "get_verifying_key"}) =>
                    /\ Cache(k)[f] \in Keys => thr'[t] = Idle(Cache(k)[f])
                    /\ Cache(k)[f] = NoKey => thr'[t] = Idle(ErrKeyNotFound)
              /\ Returns(t, {"contains_proving_key", "contains_verifying_key"}) =>
                    /\ Cache(k)[f] \in Keys => thr'[t] = Idle("true")
                    /\ Cache(k)[f] = NoKey => thr'[t] = Idle("false") ]_vars

\* An insert is about to overwrite a different key cached for the function,
\* while the other thread has got a key from a get.
C16_Witness ==
    \E t \in Threads, u \in Threads :
        /\ thr[t].pc = "locked"
        /\ thr[t].op = "insert_proving_key"
        /\ proving_keys[thr[t].name] \in Keys \ {thr[t].key}
        /\ thr[u].pc = "idle"
        /\ thr[u].ret \in Keys

(***************************************************************************)
(* C17.  remove_proving_key / remove_verifying_key never fail and are      *)
(* idempotent: the write of a remove returns Ok, leaves the name without   *)
(* an entry, changes nothing else, and leaves the cache exactly as it was  *)
(* when the name had no entry.                                             *)
(***************************************************************************)
C17_RemoveIdempotent ==
    [][ \A t \in Threads :
          LET k == CacheOfOp(thr[t].op)
              f == thr[t].name
              after == IF k = "proving_keys" THEN proving_keys' ELSE verifying_keys'
          IN  Returns(t, {"remove_proving_key", "remove_verifying_key"}) =>
                  /\ thr'[t] = Idle(OkUnit)
                  /\ after[f] = NoKey
                  /\ \A g \in Identifiers \ {f} : after[g] = Cache(k)[g]
                  /\ Cache(k)[f] = NoKey => after = Cache(k) ]_vars

\* A remove is at its write for a name that has no entry, after a call of the
\* other thread returned Ok.
C17_Witness ==
    \E t \in Threads, u \in Threads :
        /\ thr[t].pc = "locked"
        /\ thr[t].op \in {"remove_proving_key", "remove_verifying_key"}
        /\ Cache(CacheOfOp(thr[t].op))[thr[t].name] = NoKey
        /\ thr[u] = Idle(OkUnit)


(***************************************************************************)
(* C13: get_external_program(id) with the Stack's own program ID is an     *)
(* error whatever external_stacks holds, an entry under that very ID       *)
(* included; with any other ID it succeeds exactly when                    *)
(* get_external_stack(id) succeeds, and then yields that Stack's program.  *)
(***************************************************************************)
C13_OwnIdNeverExternal ==
    lookup.op = "get_external_program" =>
        /\ lookup.arg = stack.program.id => ~lookup.result.ok
        /\ lookup.arg # stack.program.id =>
              /\ lookup.result.ok <=> lookup.arg \in DOMAIN stack.external_stacks
              /\ lookup.result.ok <=> get_external_stack(stack, lookup.arg).ok
              /\ lookup.result.ok =>
                    lookup.result.val = stack.external_stacks[lookup.arg].program

\* The Stack's own ID was asked for while external_stacks has an entry under it.
C13_Witness ==
    /\ lookup.op = "get_external_program"
    /\ lookup.arg = stack.program.id
    /\ lookup.arg \in DOMAIN stack.external_stacks
    /\ ~lookup.result.ok

(***************************************************************************)
(* C14: contains_external_record(locator) always answers with a boolean:   *)
(* false when the locator's program does not resolve (no such import, or   *)
(* the Stack's own ID even though the own program declares the record),    *)
(* otherwise whether the resolved program declares the record; and         *)
(* get_external_record(locator) succeeds only if it answers true.          *)
(***************************************************************************)
C14_ContainsNeverFails ==
    /\ lookup.op = "contains_external_record" =>
          /\ lookup.result \in BOOLEAN
          /\ ( \/ lookup.arg.program_id = stack.program.id
               \/ lookup.arg.program_id \notin DOMAIN stack.external_stacks )
                => lookup.result = FALSE
          /\ ( /\ lookup.arg.program_id # stack.program.id
               /\ lookup.arg.program_id \in DOMAIN stack.external_stacks )
                => ( lookup.result <=>
                       lookup.arg.resource \in
                         stack.external_stacks[lookup.arg.program_id].program.records )
    /\ lookup.op = "get_external_record" =>
          (lookup.result.ok => contains_external_record(stack, lookup.arg))

\* The locator names the Stack's own program, which declares the record, and
\* the answer is false.
C14_Witness ==
    /\ lookup.op = "contains_external_record"
    /\ lookup.arg.program_id = stack.program.id
    /\ lookup.arg.resource \in stack.program.records
    /\ lookup.result = FALSE


(***************************************************************************)
(* C12: for a declared function f whose Call instructions all resolve,     *)
(* get_number_of_calls(f) is 1 plus, for every Call instruction of f that  *)
(* names a function, once per occurrence, the number of calls of the       *)
(* callee: counted in the same Stack for a local name, in the resolved     *)
(* external Stack for a locator. A Call of a closure and any other         *)
(* instruction add nothing, so a function without function calls counts 1. *)
(***************************************************************************)
C12_OnePlusCallees ==
    ( /\ lookup.op = "get_number_of_calls"
      /\ lookup.arg \in DOMAIN stack.program.functions ) =>
        LET body == stack.program.functions[lookup.arg]
            IsCall(i) == body[i].opcode = "call"
            ByLocator(i) == IsCall(i) /\ body[i].operator = "Locator"
            Resolves(i) ==
                ByLocator(i) => /\ body[i].program_id # stack.program.id
                                /\ body[i].program_id \in DOMAIN stack.external_stacks
            Target(i) == IF ByLocator(i) THEN stack.external_stacks[body[i].program_id]
                                         ELSE stack
            Counted(i) == IsCall(i) /\ body[i].resource \in DOMAIN Target(i).program.functions
            Callee(i) == get_number_of_calls(Target(i), body[i].resource)
            total[i \in 0..Len(body)] ==
                IF i = 0 THEN 1
                ELSE total[i - 1] + (IF Counted(i) THEN Callee(i).val ELSE 0)
        IN  /\ (\A i \in 1..Len(body) : Resolves(i) /\ (Counted(i) => Callee(i).ok))
                  => lookup.result = ROk(total[Len(body)])
            /\ (\A i \in 1..Len(body) : Resolves(i) /\ ~Counted(i))
                  => lookup.result = ROk(1)

\* f calls h, which counts 3, and a closure: f counts 4.
C12_Witness ==
    /\ lookup.op = "get_number_of_calls"
    /\ lookup.arg = "f"
    /\ stack.program.functions["f"] = <<CallResource("h"), CallResource("c")>>
    /\ get_number_of_calls(stack, "h").ok
    /\ get_number_of_calls(stack, "h").val = 3
    /\ lookup.result.ok
    /\ lookup.result.val = 4

(***************************************************************************)
(* C20: whenever the import graph among the Stacks is acyclic,             *)
(* get_number_of_calls(f) returns, with a count or an error, for every     *)
(* function f the Stack declares: the recursion is never unbounded.        *)
(***************************************************************************)
C20_TerminatesOnAcyclicImports ==
    LET ImportsAcyclic ==
            \A id \in DOMAIN stack.external_stacks :
                /\ id # stack.program.id
                /\ DOMAIN stack.external_stacks[id].external_stacks = {}
    IN  ( /\ lookup.op = "get_number_of_calls"
          /\ lookup.arg \in DOMAIN stack.program.functions
          /\ ImportsAcyclic ) => lookup.result.err # Unbounded


\* A Stack without its key caches, and so its imported Stacks.
RECURSIVE Bare(_)
Bare(s) ==
    [program |-> s.program,
     external_stacks |-> [id \in DOMAIN s.external_stacks |-> Bare(s.external_stacks[id])],
     program_types |-> s.program_types]

(***************************************************************************)
(* C11: two Stacks compare equal exactly when their program, their         *)
(* external_stacks and their program_types are equal, whatever keys have   *)
(* been inserted into or removed from the caches of either; Stacks built   *)
(* from the same program stay equal when one has keys and the other none.  *)
(***************************************************************************)
C11_EqIgnoresKeys ==
    lookup.op = "eq" => (lookup.result <=> Bare(pair.self) = Bare(pair.other))

\* The Stacks were built alike, one has a cached key and the other none, and
\* they compared equal.
C11_Witness ==
    /\ lookup.op = "eq"
    /\ lookup.result = TRUE
    /\ keycells[pair.self.proving_keys]["f1"] \in Keys
    /\ keycells[pair.other.proving_keys] = EmptyMap
    /\ keycells[pair.other.verifying_keys] = EmptyMap


(***************************************************************************)
(* C15: Stack::new returns an error without calling Stack::initialize      *)
(* whenever the process already contains the program ID, the ID is not in  *)
(* the aleo domain, the program has no functions, decoding the encoded     *)
(* bytes fails or gives another program, or parsing the formatted text     *)
(* fails or gives another program. The checks are made in that order: the  *)
(* error is that of the first that fails, and initialize is called last,   *)
(* after all of them.                                                      *)
(***************************************************************************)
C15_NewChecksBeforeInitialize ==
    lookup.op = "new" =>
        LET process == lookup.arg.process
            program == lookup.arg.program
            codecs == lookup.arg.codecs
            made == lookup.result.made
            result == lookup.result.result
            Exists == program.id \in process
            BadDomain == program.id = ForeignID
            NoFunctions == DOMAIN program.functions = {}
            BytesFail ==
                \/ ~to_bytes_le(program, codecs.bytes).ok
                \/ ~from_bytes_le(to_bytes_le(program, codecs.bytes).val, codecs.bytes).ok
            BytesDiffer ==
                ~BytesFail /\
                from_bytes_le(to_bytes_le(program, codecs.bytes).val, codecs.bytes).val
                    # program
            TextFail == ~from_str(to_string(program, codecs.text), codecs.text).ok
            TextDiffer ==
                ~TextFail /\
                from_str(to_string(program, codecs.text), codecs.text).val # program
            Initialized == \E i \in 1..Len(made) : made[i] = "initialize"
        IN  /\ (Exists \/ BadDomain \/ NoFunctions \/ BytesFail \/ BytesDiffer
                  \/ TextFail \/ TextDiffer) => (~result.ok /\ ~Initialized)
            /\ Initialized =>
                  made = <<"contains_program", "is_aleo", "functions", "to_bytes_le",
                           "from_bytes_le", "to_string", "from_str", "initialize">>
            /\ Exists => result.err = ErrExists
            /\ (~Exists /\ BadDomain) => result.err = ErrDomain
            /\ (~Exists /\ ~BadDomain /\ NoFunctions) => result.err = ErrNoFunctions
            /\ (~Exists /\ ~BadDomain /\ ~NoFunctions /\ BytesDiffer)
                  => result.err = ErrBytes
            /\ (~Exists /\ ~BadDomain /\ ~NoFunctions /\ ~BytesFail /\ ~BytesDiffer
                  /\ TextDiffer) => result.err = ErrString

\* Only the last check fails: the text codec loses the closure of a program
\* that passes the four checks before it, and no Stack is built.
C15_Witness ==
    /\ lookup.op = "new"
    /\ lookup.arg.program.id \notin lookup.arg.process
    /\ lookup.arg.program.id = MainID
    /\ DOMAIN lookup.arg.program.functions # {}
    /\ lookup.arg.codecs.bytes = "drops_records"
    /\ lookup.arg.program.records = {}
    /\ lookup.arg.codecs.text = "drops_closures"
    /\ lookup.arg.program.closures # {}
    /\ lookup.result.result.err = ErrString
    /\ Len(lookup.result.made) = 7


(***************************************************************************)
(* C18: whatever the order in which the workers finish, the map from which *)
(* init_prover builds its State has exactly the input circuits as keys     *)
(* and, per circuit, as many assignments as the circuit has instances,     *)
(* with the output of instance i at position i.                            *)
(***************************************************************************)
C18_OrderPreserved ==
    prover.ret.ok =>
        LET map == prover.ret.val.indices_and_assignments
        IN  /\ DOMAIN map = DOMAIN prover.circuits
            /\ \A c \in DOMAIN prover.circuits :
                  /\ Len(map[c]) = Len(prover.circuits[c])
                  /\ \A i \in 1..Len(prover.circuits[c]) :
                        /\ map[c][i].public_variables =
                              prover.circuits[c][i].public_variables
                        /\ map[c][i].private_variables =
                              prover.circuits[c][i].private_variables
                        /\ map[c][i] = assign(CircuitOf(c), prover.circuits[c][i]).val

\* Two circuits; the second instance of circuit 1, whose output differs from
\* the first's, was finished first, and a State was returned.
C18_Witness ==
    /\ prover.ret.ok
    /\ DOMAIN prover.circuits = {"circuit_1", "circuit_2"}
    /\ Len(prover.circuits["circuit_1"]) = 2
    /\ prover.circuits["circuit_1"][1] # prover.circuits["circuit_1"][2]
    /\ DoneOf("circuit_1")[1].i = 2

\* An instance fails: its synthesis fails, its padded public input is not
\* admissible, or its sizes differ from the circuit's index info.
InstanceFails(c, instance) ==
    \/ instance.generate_constraints = "error"
    \/ Len(instance.public_variables) \notin {1, 2, 4}
    \/ instance.num_constraints # CircuitOf(c).index_info.num_constraints
    \/ Len(instance.public_variables) + Len(instance.private_variables)
          # CircuitOf(c).index_info.num_variables

(***************************************************************************)
(* C19: when init_prover has returned and any instance of any circuit      *)
(* fails, it has returned an error and no State, however many instances    *)
(* succeeded; the error is one of a failing instance's, which is           *)
(* InstanceDoesNotMatchIndex when sizes that differ from the index info    *)
(* are all that is wrong. A State is returned only when every instance of  *)
(* every circuit succeeded.                                                *)
(***************************************************************************)
C19_AllOrNothing ==
    LET Failing == {ci \in (DOMAIN prover.circuits) \X (1..MaxInstances) :
                      /\ ci[2] <= Len(prover.circuits[ci[1]])
                      /\ InstanceFails(ci[1], prover.circuits[ci[1]][ci[2]])}
        OnlySizesDiffer ==
            \A ci \in Failing :
                /\ prover.circuits[ci[1]][ci[2]].generate_constraints = "ok"
                /\ Len(prover.circuits[ci[1]][ci[2]].public_variables) \in {1, 2, 4}
    IN  prover.ret.err # NotYet.err =>
            /\ Failing # {} => ~prover.ret.ok
            /\ prover.ret.ok => Failing = {}
            /\ (Failing # {} /\ OnlySizesDiffer) =>
                  prover.ret.err = InstanceDoesNotMatchIndex

\* An instance whose sizes differ from the index info failed after another
\* instance of the circuit had succeeded, and init_prover returned the error.
C19_Witness ==
    /\ prover.ret.err = InstanceDoesNotMatchIndex
    /\ Len(prover.done) >= 2
    /\ prover.done[1].result.ok
    /\ prover.done[1].circuit = "circuit_1"
    /\ ~prover.done[2].result.ok
    /\ prover.done[2].circuit = "circuit_1"

\* C21: no thread ever holds the proving-key lock and the verifying-key lock
\* together, and under fair scheduling every key-cache operation a thread has
\* started eventually returns, whatever the other threads call meanwhile.
C21_NoDeadlock ==
    /\ [](\A t \in Threads : ~(Holds(t, "proving_keys") /\ Holds(t, "verifying_keys")))
    /\ \A t \in Threads : ((thr[t].pc # "idle") ~> (thr[t].pc = "idle"))

\* A writer has started its call and waits for a cache whose lock another
\* thread holds.
C21_Witness ==
    \E t \in Threads : \E u \in Threads \ {t} :
        /\ thr[t].pc = "called"
        /\ thr[t].op \in WriteOps
        /\ Holds(u, CacheOfOp(thr[t].op))
        /\ thr[u].pc = "locked"

\* The handles whose Stacks are clones of one Stack: the original and its
\* clone, and the copies of the imported Stack stored in external_stacks.
CloneFamilies == {{"self", "clone"}, {"self.ext", "other.ext", "clone.ext"}}

\* The handles that exist among the clones of handle h's Stack.
ClonesOf(h) == {g \in Handles : HasHandle(g) /\ \E fam \in CloneFamilies : {h, g} \subseteq fam}

(***************************************************************************)
(* C22: a clone of a Stack, the copies stored in external_stacks included,  *)
(* shares both key caches with the original: contains_* and get_* give the *)
(* same answers through either handle, a key just inserted through one is   *)
(* returned through the others and a key just removed is absent through    *)
(* all; the program, external_stacks and program_types of the clone equal   *)
(* the original's.                                                          *)
(***************************************************************************)
C22_CloneSharesCaches ==
    /\ \A h \in Handles : \A g \in ClonesOf(h) : \A k \in Caches, f \in Identifiers :
           HasHandle(h) =>
           /\ stack_contains_key(HandleStack(h), k, f) = stack_contains_key(HandleStack(g), k, f)
           /\ stack_get_key(HandleStack(h), k, f) = stack_get_key(HandleStack(g), k, f)
    /\ (lookup.op = "insert_key" /\ lookup.result = OkUnit) =>
           \A g \in ClonesOf(lookup.arg[1]) :
               stack_get_key(HandleStack(g), lookup.arg[2], lookup.arg[3]) = lookup.arg[4]
    /\ lookup.op = "remove_key" =>
           \A g \in ClonesOf(lookup.arg[1]) :
               ~stack_contains_key(HandleStack(g), lookup.arg[2], lookup.arg[3])
    /\ "clone" \in DOMAIN pair => Bare(pair.clone) = Bare(pair.self)

\* A key was inserted through the clone of the imported Stack that the clone
\* stores: the original returns another key it got through its own handle,
\* its imported copy returns the new key, and the Stack built separately has
\* neither in its own caches.
C22_Witness ==
    /\ "clone" \in DOMAIN pair
    /\ lookup.op = "insert_key"
    /\ lookup.result = OkUnit
    /\ lookup.arg[1] = "clone.ext"
    /\ stack_get_key(HandleStack("self.ext"), lookup.arg[2], "f1") = "k1"
    /\ stack_get_key(pair.clone, "verifying_keys", "f1") = "k1"
    /\ stack_get_key(pair.self, "verifying_keys", "f1") = "k1"
    /\ ~stack_contains_key(pair.other, "verifying_keys", "f1")

=============================================================================
